---------------------------- MODULE Spec2Model ----------------------------
(***************************************************************************)
(* A model of the clinical-trials registry client and aggregator           *)
(* (src/src/clinical_trials_api.py).  Every operation is a call that       *)
(* builds its request parameters, performs its HTTP fetches against a      *)
(* registry whose answers are chosen nondeterministically, and ends with   *)
(* a returned value or a raised exception.                                 *)
(*                                                                         *)
(* Python values: a str is a TLA+ string, a dict is a function on string   *)
(* keys, a list is a sequence, None is the reserved string None below      *)
(* (no modelled input equals it).  A JSON body is tagged with its type so  *)
(* that the code's .get on a non-dict can fail as it does in Python.       *)
(***************************************************************************)
EXTENDS Integers, Sequences, FiniteSets, TLC

VARIABLES op, pc, args, query_parts, params, requests, responses,
          total_count, page_count, next_token, outcome,
          messages, agent_pc, tool_calls, tool_index, run_outcome, runs

\* the state of the Agent object and of its running run() call
agent_vars == <<messages, agent_pc, tool_calls, tool_index, run_outcome, runs>>

vars == <<op, pc, args, query_parts, params, requests, responses,
          total_count, page_count, next_token, outcome,
          messages, agent_pc, tool_calls, tool_index, run_outcome, runs>>

\* ------------------------------------------------------------------ bounds

\* longest studies list (besides the fixed over-sized ones) a response carries
MaxStudies == 2

\* longest list of trials handed to analyze_criteria
MaxTrials == 2

\* ---------------------------------------------------------- Python helpers

None == "<None>"

\* Python truthiness of an optional str: None and "" are falsy
Truthy(v) == v # None /\ v # ""

\* d.get(k, default)
PyGet(d, k, default) == IF k \in DOMAIN d THEN d[k] ELSE default

Min(a, b) == IF a < b THEN a ELSE b

\* sep.join(parts)
RECURSIVE Join(_, _)
Join(parts, sep) ==
    IF parts = <<>> THEN ""
    ELSE IF Len(parts) = 1 THEN parts[1]
    ELSE parts[1] \o sep \o Join(Tail(parts), sep)

\* s[:n]
Prefix(s, n) == SubSeq(s, 1, Min(Len(s), n))

StartsWith(s, p) == Len(s) >= Len(p) /\ SubSeq(s, 1, Len(p)) = p

\* s.find(sub): the least index (from 1) where sub occurs in s, 0 when none
Find(s, sub) ==
    LET hits == {i \in 1..(Len(s) - Len(sub) + 1) : SubSeq(s, i, i + Len(sub) - 1) = sub}
    IN  IF hits = {} THEN 0 ELSE CHOOSE i \in hits : \A j \in hits : i <= j

\* sub in s
Contains(s, sub) == Find(s, sub) # 0

\* s.split(sep), sep non-empty
RECURSIVE Split(_, _)
Split(s, sep) ==
    LET i == Find(s, sep)
    IN  IF i = 0 THEN <<s>>
        ELSE <<SubSeq(s, 1, i - 1)>> \o Split(SubSeq(s, i + Len(sep), Len(s)), sep)

Whitespace == {" ", "\n", "\t"}

\* s.strip()
RECURSIVE LStrip(_)
LStrip(s) == IF s # "" /\ SubSeq(s, 1, 1) \in Whitespace THEN LStrip(Tail(s)) ELSE s

RECURSIVE RStrip(_)
RStrip(s) ==
    IF s # "" /\ SubSeq(s, Len(s), Len(s)) \in Whitespace
    THEN RStrip(SubSeq(s, 1, Len(s) - 1)) ELSE s

Strip(s) == RStrip(LStrip(s))

\* ---------------------------------------------------------------- registry

CT_API_BASE == "https://clinicaltrials.gov/api/v2/studies"

JDict(d) == [type |-> "dict", val |-> d]
JList(l) == [type |-> "list", val |-> l]

\* what the try body's three calls (requests.get, raise_for_status, json)
\* yield for a registry answer: the parsed body or the exception raised
Raised(msg) == [raised |-> TRUE, exc |-> msg, data |-> JList(<<>>)]
Parsed(data) == [raised |-> FALSE, exc |-> "", data |-> data]

RequestsGet(resp) ==
    IF resp.fail = "Timeout" THEN Raised("Read timed out. (read timeout=30)")
    ELSE IF resp.fail = "ConnectionError" THEN Raised("Connection refused")
    ELSE Parsed(resp.data)

\* response.raise_for_status()
raise_for_status(resp) ==
    IF resp.status >= 400 /\ resp.status < 600
    THEN Raised(ToString(resp.status) \o " Error for url: " \o CT_API_BASE)
    ELSE Parsed(resp.data)

\* response.json()
ResponseJson(resp) ==
    IF ~resp.parses THEN Raised("Expecting value: line 1 column 1 (char 0)")
    ELSE Parsed(resp.data)

\* get; raise_for_status; json -- the first exception wins
FetchChecked(resp) ==
    IF RequestsGet(resp).raised THEN RequestsGet(resp)
    ELSE IF raise_for_status(resp).raised THEN raise_for_status(resp)
    ELSE ResponseJson(resp)

\* get; json -- show_trials does not call raise_for_status
FetchUnchecked(resp) ==
    IF RequestsGet(resp).raised THEN RequestsGet(resp)
    ELSE ResponseJson(resp)

\* data.get(...) on a body that is not a JSON object
AttributeErrorMsg(data) == "'" \o data.type \o "' object has no attribute 'get'"

\* ------------------------------------------------------- query construction

AreaClause(area, v) == "AREA[" \o area \o "]" \o v

\* the four filters shared by count_trials, search_trials, extract_sites
BaseQueryParts(a) ==
    (IF Truthy(a.condition) THEN <<AreaClause("Condition", a.condition)>> ELSE <<>>)
    \o (IF Truthy(a.phase) THEN <<AreaClause("Phase", a.phase)>> ELSE <<>>)
    \o (IF Truthy(a.status) THEN <<AreaClause("OverallStatus", a.status)>> ELSE <<>>)
    \o (IF Truthy(a.location) THEN <<AreaClause("LocationCountry", a.location)>> ELSE <<>>)

\* query.term set whether or not there are parts
BuildParamsAlwaysTerm(pageSize, parts) ==
    ("format" :> "json") @@ ("pageSize" :> pageSize)
    @@ ("query.term" :> Join(parts, " AND "))

\* params = {"format": "json", "pageSize": n}; query.term added when there are parts
BuildParams(pageSize, parts) ==
    LET base == ("format" :> "json") @@ ("pageSize" :> pageSize)
    IN  IF parts # <<>> THEN base @@ ("query.term" :> Join(parts, " AND ")) ELSE base

\* ------------------------------------------------------------ raw studies

EmptyDict == <<>>

RECURSIVE RepStr(_, _)
RepStr(s, n) == IF n = 0 THEN "" ELSE s \o RepStr(s, n - 1)

\* [x] * n
Repeat(x, n) == [i \in 1..n |-> x]

LongCriteria == "Inclusion Criteria: " \o RepStr("adults 18+ ", 40)
                \o "Exclusion Criteria: " \o RepStr("pregnancy ", 40)
LongDescription == RepStr("insulin dose ", 20)

RawLocation(i) ==
    [facility |-> "Hospital " \o ToString(i), city |-> "Paris", country |-> "France",
     geoPoint |-> [lat |-> 48, lon |-> 2]]

\* a complete registry record: long free text, 30 locations
StudyA ==
    [protocolSection |->
      [identificationModule |->
         [nctId |-> "NCT00000001", briefTitle |-> "Insulin in T2D",
          officialTitle |-> "A Study of Insulin in Type 2 Diabetes", acronym |-> "INS",
          organization |-> [fullName |-> "Pfizer"]],
       statusModule |->
         [overallStatus |-> "RECRUITING",
          startDateStruct |-> [date |-> "2020-01-01", type |-> "ACTUAL"],
          completionDateStruct |-> [date |-> "2020-12-31", type |-> "ESTIMATED"],
          primaryCompletionDateStruct |-> [date |-> "2020-11"],
          studyFirstPostDateStruct |-> [date |-> "2019-12-01"],
          lastUpdatePostDateStruct |-> [date |-> "2020-06-01"],
          studyFirstSubmitDate |-> "2019-11-20"],
       sponsorCollaboratorsModule |->
         [leadSponsor |-> [name |-> "Pfizer", class |-> "INDUSTRY"],
          responsibleParty |-> [investigatorFullName |-> "Dr A",
                                investigatorAffiliation |-> "Pfizer"]],
       descriptionModule |-> [briefSummary |-> "brief", detailedDescription |-> "detailed"],
       conditionsModule |-> [conditions |-> <<"Diabetes">>],
       designModule |->
         [studyType |-> "INTERVENTIONAL", phases |-> <<"PHASE2", "PHASE3">>,
          enrollmentInfo |-> [count |-> 120, type |-> "ACTUAL"],
          designInfo |-> [allocation |-> "RANDOMIZED", interventionModel |-> "PARALLEL",
                          primaryPurpose |-> "TREATMENT"]],
       armsInterventionsModule |->
         [interventions |-> <<[type |-> "DRUG", name |-> "insulin",
                               description |-> LongDescription],
                              [type |-> "DRUG"]>>],
       eligibilityModule |->
         [eligibilityCriteria |-> LongCriteria, healthyVolunteers |-> TRUE, sex |-> "ALL",
          minimumAge |-> "18 Years", maximumAge |-> "65 Years", stdAges |-> <<"ADULT">>],
       contactsLocationsModule |-> [locations |-> [i \in 1..30 |-> RawLocation(i)]],
       outcomesModule |->
         [primaryOutcomes |-> <<[measure |-> "HbA1c", description |-> "change",
                                 timeFrame |-> "12 weeks"]>>,
          secondaryOutcomes |-> <<[measure |-> "weight", timeFrame |-> "12 weeks"]>>]]]

\* a sparse record: most modules missing, equal start and completion dates
StudyB ==
    [protocolSection |->
      [identificationModule |-> [nctId |-> "NCT00000002"],
       statusModule |->
         [overallStatus |-> "COMPLETED",
          startDateStruct |-> [date |-> "2021-06-01"],
          completionDateStruct |-> [date |-> "2021-06-01"]],
       eligibilityModule |-> [eligibilityCriteria |-> "Inclusion Criteria: age 18+"],
       contactsLocationsModule |-> [locations |-> <<[city |-> "Madrid"]>>]]]

\* {} : a record with nothing in it
StudyEmpty == EmptyDict

RawStudies == <<StudyEmpty, StudyA, StudyB>>

\* ---------------------------------------------------------- normalization

\* the description never cut
ParseInterventionUncut(interv, full_details) ==
    [type |-> PyGet(interv, "type", ""),
     name |-> PyGet(interv, "name", ""),
     description |-> PyGet(interv, "description", "")]

\* lines 126-131
ParseIntervention(interv, full_details) ==
    [type |-> PyGet(interv, "type", ""),
     name |-> PyGet(interv, "name", ""),
     description |-> IF ~full_details THEN Prefix(PyGet(interv, "description", ""), 200)
                     ELSE PyGet(interv, "description", "")]

\* the default of extract_sites' facility used here too
ParseLocationUnknown(loc) ==
    [facility |-> PyGet(loc, "facility", "Unknown"), city |-> PyGet(loc, "city", ""),
     state |-> PyGet(loc, "state", ""), country |-> PyGet(loc, "country", ""),
     status |-> PyGet(loc, "status", "")]

\* lines 146-153
ParseLocation(loc) ==
    [facility |-> PyGet(loc, "facility", ""), city |-> PyGet(loc, "city", ""),
     state |-> PyGet(loc, "state", ""), country |-> PyGet(loc, "country", ""),
     status |-> PyGet(loc, "status", "")]

ParsePrimaryOutcome(o) ==
    [measure |-> PyGet(o, "measure", ""), description |-> PyGet(o, "description", ""),
     timeFrame |-> PyGet(o, "timeFrame", "")]

ParseSecondaryOutcome(o) ==
    [measure |-> PyGet(o, "measure", ""), timeFrame |-> PyGet(o, "timeFrame", "")]

MapSeq(s, F(_)) == [i \in 1..Len(s) |-> F(s[i])]

\* _parse_study(study, full_details)
ParseStudy(study, full_details) ==
    LET protocol == PyGet(study, "protocolSection", EmptyDict)
        id_module == PyGet(protocol, "identificationModule", EmptyDict)
        status_module == PyGet(protocol, "statusModule", EmptyDict)
        sponsor_module == PyGet(protocol, "sponsorCollaboratorsModule", EmptyDict)
        lead_sponsor == PyGet(sponsor_module, "leadSponsor", EmptyDict)
        responsible_party == PyGet(sponsor_module, "responsibleParty", EmptyDict)
        description_module == PyGet(protocol, "descriptionModule", EmptyDict)
        conditions_module == PyGet(protocol, "conditionsModule", EmptyDict)
        design_module == PyGet(protocol, "designModule", EmptyDict)
        enrollment_info == PyGet(design_module, "enrollmentInfo", EmptyDict)
        design_info == PyGet(design_module, "designInfo", EmptyDict)
        arms_module == PyGet(protocol, "armsInterventionsModule", EmptyDict)
        interventions_raw == PyGet(arms_module, "interventions", <<>>)
        eligibility_module == PyGet(protocol, "eligibilityModule", EmptyDict)
        eligibility_criteria == PyGet(eligibility_module, "eligibilityCriteria", "")
        contacts_module == PyGet(protocol, "contactsLocationsModule", EmptyDict)
        locations_raw == PyGet(contacts_module, "locations", <<>>)
        outcomes_module == PyGet(protocol, "outcomesModule", EmptyDict)
        DateOf(k) == PyGet(PyGet(status_module, k, EmptyDict), "date", "")
        TypeOf(k) == PyGet(PyGet(status_module, k, EmptyDict), "type", "")
        Interv(x) == ParseIntervention(x, full_details)
        result ==
          [nctId |-> PyGet(id_module, "nctId", ""),
           title |-> PyGet(id_module, "briefTitle", ""),
           acronym |-> PyGet(id_module, "acronym", ""),
           status |-> PyGet(status_module, "overallStatus", ""),
           phases |-> PyGet(design_module, "phases", <<>>),
           studyType |-> PyGet(design_module, "studyType", ""),
           conditions |-> PyGet(conditions_module, "conditions", <<>>),
           interventions |-> MapSeq(interventions_raw, Interv),
           sponsor |-> PyGet(lead_sponsor, "name", ""),
           sponsorClass |-> PyGet(lead_sponsor, "class", ""),
           enrollment |-> [count |-> PyGet(enrollment_info, "count", 0),
                           type |-> PyGet(enrollment_info, "type", "")],
           dates |-> [start |-> DateOf("startDateStruct"),
                      startType |-> TypeOf("startDateStruct"),
                      completion |-> DateOf("completionDateStruct"),
                      completionType |-> TypeOf("completionDateStruct"),
                      primaryCompletion |-> DateOf("primaryCompletionDateStruct"),
                      firstPosted |-> DateOf("studyFirstPostDateStruct"),
                      lastUpdated |-> DateOf("lastUpdatePostDateStruct"),
                      firstSubmit |-> PyGet(status_module, "studyFirstSubmitDate", "")],
           eligibility |-> [criteria |-> IF ~full_details
                                         THEN Prefix(eligibility_criteria, 800)
                                         ELSE eligibility_criteria,
                            sex |-> PyGet(eligibility_module, "sex", ""),
                            minAge |-> PyGet(eligibility_module, "minimumAge", ""),
                            maxAge |-> PyGet(eligibility_module, "maximumAge", ""),
                            stdAges |-> PyGet(eligibility_module, "stdAges", <<>>),
                            healthyVolunteers |->
                                PyGet(eligibility_module, "healthyVolunteers", FALSE)],
           locations |-> MapSeq(Prefix(locations_raw, 10), ParseLocation)]
        extra ==
          [officialTitle |-> PyGet(id_module, "officialTitle", ""),
           organization |->
               PyGet(PyGet(id_module, "organization", EmptyDict), "fullName", ""),
           investigator |-> PyGet(responsible_party, "investigatorFullName", ""),
           investigatorAffiliation |->
               PyGet(responsible_party, "investigatorAffiliation", ""),
           briefSummary |-> PyGet(description_module, "briefSummary", ""),
           detailedDescription |-> PyGet(description_module, "detailedDescription", ""),
           design |-> [allocation |-> PyGet(design_info, "allocation", ""),
                       interventionModel |-> PyGet(design_info, "interventionModel", ""),
                       primaryPurpose |-> PyGet(design_info, "primaryPurpose", "")],
           primaryOutcomes |->
               MapSeq(PyGet(outcomes_module, "primaryOutcomes", <<>>), ParsePrimaryOutcome),
           secondaryOutcomes |->
               MapSeq(PyGet(outcomes_module, "secondaryOutcomes", <<>>),
                      ParseSecondaryOutcome)]
    IN  IF full_details THEN result @@ extra ELSE result

\* ------------------------------------------------------- registry answers

FailResp(kind) == [fail |-> kind, status |-> 0, parses |-> FALSE, data |-> JList(<<>>)]
HttpResp(status, parses, data) ==
    [fail |-> "none", status |-> status, parses |-> parses, data |-> data]

\* transport and parse failures: timeout, connection failure, non-2xx status
\* (with a JSON body, with a body that is no JSON), malformed body, and a
\* body that is valid JSON but no object
ErrorResponses ==
    <<FailResp("Timeout"),
      FailResp("ConnectionError"),
      HttpResp(404, TRUE, JDict("message" :> "Not Found")),
      HttpResp(500, FALSE, JList(<<>>)),
      HttpResp(200, FALSE, JList(<<>>)),
      HttpResp(200, TRUE, JList(<<>>))>>


\* requests.get(url, params=params, timeout=30)
Request(url, p) == [url |-> url, params |-> p, timeout |-> 30]

\* the studies lists a single-page answer may carry: every list of at most
\* MaxStudies of the listed studies
ListedStudies == <<StudyA, StudyB>>
StudyListChoices == UNION {[1..n -> 1..Len(ListedStudies)] : n \in 0..MaxStudies}
StudyListAt(f) == [i \in DOMAIN f |-> ListedStudies[f[i]]]
OkList(l) == HttpResp(200, TRUE, JDict("studies" :> l))

\* the other answers: the failures, an object without studies, a list with
\* an empty record in it, and the two long lists
FixedListResponses ==
    ErrorResponses
    \o <<HttpResp(200, TRUE, JDict(EmptyDict)),
         OkList(<<StudyB, StudyEmpty>>),
         OkList(Repeat(StudyB, 20)),
         OkList(Repeat(StudyB, 21))>>

\* a page of n studies that names a next page, and one that does not
Page(n, tok) ==
    JDict(("studies" :> Repeat(StudyEmpty, n)) @@ ("nextPageToken" :> tok))
LastPage(n) == JDict("studies" :> Repeat(StudyEmpty, n))

\* the pages the registry answers count_trials with: empty, short, full and
\* over-full ones; with a token, with an empty token, with none; and an
\* object with neither key
CountPages ==
    <<Page(1, "tokA"), Page(100, "tokA"), Page(100, "tokB"), Page(101, "tokB"),
      Page(100, ""), LastPage(0), LastPage(1), LastPage(100), JDict(EmptyDict)>>

CountResponses ==
    ErrorResponses \o [i \in 1..Len(CountPages) |-> HttpResp(200, TRUE, CountPages[i])]

\* ------------------------------------------------------------ count_trials

\* one page more than the cap
max_pages_more == 3 + 1

max_pages == 3

CountArgs ==
    [condition : {None, "", "diabetes"}, phase : {None, "PHASE3"},
     status : {None, "RECRUITING"}, location : {None, "France"}]

Return(pytype, value) == [how |-> "return", pytype |-> pytype, value |-> value]
Raise(exc) == [how |-> "raise", exc |-> exc]
ErrorValue(msg) == Return("dict", [error |-> msg])

\* isinstance(x, dict) and "error" in x, of a returned value
IsErrorReturn(o) == o.pytype = "dict" /\ "error" \in DOMAIN o.value

\* lines 8-32: parameters and the loop's initial locals
CallCountTrials ==
    /\ pc = "idle"
    /\ \E a \in CountArgs :
         /\ args' = a
         /\ query_parts' = BaseQueryParts(a)
         /\ params' = BuildParams(100, BaseQueryParts(a))
    /\ op' = "count_trials"
    /\ pc' = "fetch"
    /\ total_count' = 0
    /\ page_count' = 0
    /\ next_token' = None
    /\ requests' = <<>>
    /\ responses' = <<>>
    /\ outcome' = [how |-> "none"]
    /\ UNCHANGED agent_vars

\* the sum forgotten: the last page's size alone
AddPageLastOnly(total, studies) == Len(studies)

\* line 43: total_count += len(studies)
AddPage(total, studies) == total + Len(studies)

\* no record taken for a failure
ExactCountNoData(n) ==
    IF n = 0 THEN ErrorValue("No trials found")
    ELSE Return("dict", [count |-> n, is_exact |-> TRUE])

\* line 48
ExactCount(n) == Return("dict", [count |-> n, is_exact |-> TRUE])
AtLeastCount(n) ==
    Return("dict", [count |-> n, is_exact |-> FALSE,
                    note |-> "At least " \o ToString(n) \o " trials"])

\* the first token kept for every later page
PageParamsStale(ps, token) ==
    IF Truthy(token) THEN ps @@ ("pageToken" :> token) ELSE ps

\* lines 35-36: if next_token: params["pageToken"] = next_token
PageParams(ps, token) ==
    IF Truthy(token) THEN ("pageToken" :> token) @@ ps ELSE ps

\* lines 34-57: one iteration of the while loop, then the loop test
CountTrialsPage ==
    /\ pc = "fetch"
    /\ op = "count_trials"
    /\ page_count < max_pages
    /\ \E i \in 1..Len(CountResponses) :
         LET resp == CountResponses[i]
             p == PageParams(params, next_token)
             got == FetchChecked(resp)
             data == got.data
             studies == PyGet(data.val, "studies", <<>>)
             token == PyGet(data.val, "nextPageToken", None)
         IN  /\ params' = p
             /\ requests' = Append(requests, Request(CT_API_BASE, p))
             /\ responses' = Append(responses, resp)
             /\ IF got.raised
                THEN /\ outcome' = ErrorValue(got.exc)
                     /\ pc' = "done"
                     /\ UNCHANGED <<total_count, page_count, next_token>>
                ELSE IF data.type # "dict"
                THEN /\ outcome' = ErrorValue(AttributeErrorMsg(data))
                     /\ pc' = "done"
                     /\ UNCHANGED <<total_count, page_count, next_token>>
                ELSE /\ total_count' = AddPage(total_count, studies)
                     /\ page_count' = page_count + 1
                     /\ next_token' = token
                     /\ IF ~Truthy(token)
                        THEN outcome' = ExactCount(total_count') /\ pc' = "done"
                        ELSE IF page_count' < max_pages
                        THEN outcome' = outcome /\ pc' = "fetch"
                        ELSE outcome' = AtLeastCount(total_count') /\ pc' = "done"
    /\ UNCHANGED <<op, args, query_parts>>
    /\ UNCHANGED agent_vars

\* ----------------------------------------------------------- search_trials

MaxResultsVals == {0, 1, 20, 21, 25}

SearchArgs ==
    [condition : {None, "", "diabetes"}, phase : {None, "PHASE3"},
     status : {None, "RECRUITING"}, location : {None, "France"},
     sponsor : {None, "Pfizer"}, intervention : {None, "insulin"},
     study_type : {None, "INTERVENTIONAL"},
     start_date_from : {None, "2020-01-01"}, start_date_to : {None, "2021-12-31"},
     max_results : MaxResultsVals]

\* the cap forgotten
ClampNone(n) == n

\* line 243 (and 428): max_results = min(max_results, 20)
ClampMaxResults(n) == Min(n, 20)

\* the open bounds mixed up
DateRangeClauseSwapped(from, to) ==
    IF Truthy(from) /\ Truthy(to)
    THEN <<"AREA[StartDate]RANGE[" \o from \o "," \o to \o "]">>
    ELSE IF Truthy(from) THEN <<"AREA[StartDate]RANGE[MIN," \o from \o "]">>
    ELSE IF Truthy(to) THEN <<"AREA[StartDate]RANGE[" \o to \o ",MAX]">>
    ELSE <<>>

\* lines 265-270
DateRangeClause(from, to) ==
    IF Truthy(from) /\ Truthy(to)
    THEN <<"AREA[StartDate]RANGE[" \o from \o "," \o to \o "]">>
    ELSE IF Truthy(from) THEN <<"AREA[StartDate]RANGE[" \o from \o ",MAX]">>
    ELSE IF Truthy(to) THEN <<"AREA[StartDate]RANGE[MIN," \o to \o "]">>
    ELSE <<>>

\* the date clause put first
SearchQueryPartsDateFirst(a) ==
    DateRangeClause(a.start_date_from, a.start_date_to)
    \o BaseQueryParts(a)
    \o (IF Truthy(a.sponsor) THEN <<AreaClause("LeadSponsorName", a.sponsor)>> ELSE <<>>)
    \o (IF Truthy(a.intervention)
        THEN <<AreaClause("InterventionName", a.intervention)>> ELSE <<>>)
    \o (IF Truthy(a.study_type) THEN <<AreaClause("StudyType", a.study_type)>> ELSE <<>>)

\* lines 250-270
SearchQueryParts(a) ==
    BaseQueryParts(a)
    \o (IF Truthy(a.sponsor) THEN <<AreaClause("LeadSponsorName", a.sponsor)>> ELSE <<>>)
    \o (IF Truthy(a.intervention)
        THEN <<AreaClause("InterventionName", a.intervention)>> ELSE <<>>)
    \o (IF Truthy(a.study_type) THEN <<AreaClause("StudyType", a.study_type)>> ELSE <<>>)
    \o DateRangeClause(a.start_date_from, a.start_date_to)

\* [_parse_study(study) for study in full_studies]
ParseCompact(study) == ParseStudy(study, FALSE)

\* lines 275-284: the try block of search_trials on the registry's answer
SearchResult(resp) ==
    LET got == FetchChecked(resp)
    IN  IF got.raised THEN ErrorValue(got.exc)
        ELSE IF got.data.type # "dict" THEN ErrorValue(AttributeErrorMsg(got.data))
        ELSE Return("list", MapSeq(PyGet(got.data.val, "studies", <<>>), ParseCompact))

\* what every call starts with besides its own parameters
StartCall(name) ==
    /\ pc = "idle"
    /\ op' = name
    /\ pc' = "fetch"
    /\ requests' = <<>>
    /\ responses' = <<>>
    /\ outcome' = [how |-> "none"]
    /\ UNCHANGED <<total_count, page_count, next_token>>
    /\ UNCHANGED agent_vars

\* lines 243-273
CallSearchTrials ==
    /\ StartCall("search_trials")
    /\ \E a \in SearchArgs :
         /\ args' = a
         /\ query_parts' = SearchQueryParts(a)
         /\ params' = BuildParams(ClampMaxResults(a.max_results), SearchQueryParts(a))

\* the single request of a one-page operation and the answer it gets
OneFetch(resp) ==
    /\ requests' = Append(requests, Request(CT_API_BASE, params))
    /\ responses' = Append(responses, resp)
    /\ pc' = "done"
    /\ UNCHANGED <<op, args, query_parts, params, total_count, page_count, next_token>>
    /\ UNCHANGED agent_vars

SearchTrialsOn(resp) ==
    /\ pc = "fetch"
    /\ op = "search_trials"
    /\ OneFetch(resp)
    /\ outcome' = SearchResult(resp)

\* lines 275-284
SearchTrialsFetch ==
    \/ \E i \in 1..Len(FixedListResponses) : SearchTrialsOn(FixedListResponses[i])
    \/ \E f \in StudyListChoices : SearchTrialsOn(OkList(StudyListAt(f)))

\* ------------------------------------------------------------- show_trials

NctIds == {"NCT00000001", "NCT00000002"}

ShowResponses ==
    ErrorResponses \o [i \in 1..Len(RawStudies) |-> HttpResp(200, TRUE, JDict(RawStudies[i]))]

\* lines 63-65: no try, no raise_for_status
ShowResult(resp) ==
    LET got == FetchUnchecked(resp)
    IN  IF got.raised THEN Raise(got.exc)
        ELSE IF got.data.type # "dict" THEN Raise(AttributeErrorMsg(got.data))
        ELSE Return("dict", ParseStudy(got.data.val, TRUE))

\* line 62
CallShowTrials ==
    /\ StartCall("show_trials")
    /\ \E id \in NctIds : args' = [nctId |-> id]
    /\ query_parts' = <<>>
    /\ params' = EmptyDict

\* lines 63-65
ShowTrialsFetch ==
    /\ pc = "fetch"
    /\ op = "show_trials"
    /\ \E i \in 1..Len(ShowResponses) :
         /\ requests' = Append(requests, Request(CT_API_BASE \o "/" \o args.nctId, params))
         /\ responses' = Append(responses, ShowResponses[i])
         /\ outcome' = ShowResult(ShowResponses[i])
    /\ pc' = "done"
    /\ UNCHANGED <<op, args, query_parts, params, total_count, page_count, next_token>>
    /\ UNCHANGED agent_vars

\* ----------------------------------------------------------- extract_sites

\* one site more than the cap
SiteCapMore == 50 + 1

SiteCap == 50

ExtractArgs ==
    [condition : {None, "diabetes"}, phase : {None, "PHASE2"},
     status : {None, "RECRUITING"}, location : {None, "Spain"},
     max_results : MaxResultsVals]

\* lines 464-472
Site(nct_id, loc) ==
    [nctId |-> nct_id,
     facility |-> PyGet(loc, "facility", "Unknown"),
     city |-> PyGet(loc, "city", ""),
     state |-> PyGet(loc, "state", ""),
     country |-> PyGet(loc, "country", ""),
     status |-> PyGet(loc, "status", ""),
     geoPoint |-> PyGet(loc, "geoPoint", EmptyDict)]

\* lines 463-475: the inner loop, left as soon as the list holds SiteCap sites
RECURSIVE AddLocations(_, _, _)
AddLocations(sites, nct_id, locations) ==
    IF locations = <<>> THEN sites
    ELSE LET more == Append(sites, Site(nct_id, Head(locations)))
         IN  IF Len(more) >= SiteCap THEN more
             ELSE AddLocations(more, nct_id, Tail(locations))

\* lines 455-478: the outer loop, left the same way
RECURSIVE AddTrials(_, _)
AddTrials(sites, trials) ==
    IF trials = <<>> THEN sites
    ELSE LET protocol == PyGet(Head(trials), "protocolSection", EmptyDict)
             id_module == PyGet(protocol, "identificationModule", EmptyDict)
             contacts_module == PyGet(protocol, "contactsLocationsModule", EmptyDict)
             more == AddLocations(sites, PyGet(id_module, "nctId", ""),
                                  PyGet(contacts_module, "locations", <<>>))
         IN  IF Len(more) >= SiteCap THEN more ELSE AddTrials(more, Tail(trials))

\* lines 448-483
ExtractResult(resp) ==
    LET got == FetchChecked(resp)
    IN  IF got.raised THEN ErrorValue(got.exc)
        ELSE IF got.data.type # "dict" THEN ErrorValue(AttributeErrorMsg(got.data))
        ELSE Return("list", AddTrials(<<>>, PyGet(got.data.val, "studies", <<>>)))

\* lines 428-446
CallExtractSites ==
    /\ StartCall("extract_sites")
    /\ \E a \in ExtractArgs :
         /\ args' = a
         /\ query_parts' = BaseQueryParts(a)
         /\ params' = BuildParams(ClampMaxResults(a.max_results), BaseQueryParts(a))

ExtractSitesOn(resp) ==
    /\ pc = "fetch"
    /\ op = "extract_sites"
    /\ OneFetch(resp)
    /\ outcome' = ExtractResult(resp)

\* a trial with 20 locations
StudyTwenty ==
    [protocolSection |->
      [identificationModule |-> [nctId |-> "NCT00000008"],
       contactsLocationsModule |-> [locations |-> [i \in 1..20 |-> RawLocation(100 + i)]]]]

\* answers whose locations reach and pass the cap: 60 and 61 locations, 50
\* exactly, 50 with a trial after them, and the cap passed in the third trial
SiteLists ==
    <<<<StudyA, StudyA, StudyB>>, <<StudyA, StudyTwenty>>,
      <<StudyA, StudyTwenty, StudyB>>, <<StudyB, StudyTwenty, StudyA>>>>

\* lines 448-483
ExtractSitesFetch ==
    \/ \E i \in 1..Len(FixedListResponses) : ExtractSitesOn(FixedListResponses[i])
    \/ \E f \in StudyListChoices : ExtractSitesOn(OkList(StudyListAt(f)))
    \/ \E i \in 1..Len(SiteLists) : ExtractSitesOn(OkList(SiteLists[i]))

\* -------------------------------------------------------- analyze_criteria

InclusionMarker == "Inclusion Criteria"
ExclusionMarker == "Exclusion Criteria"

JStr(x) == [type |-> "str", val |-> x]
TrialWith(text) == JDict([eligibility |-> [criteria |-> text]])

\* what the caller may hand over as one trial: records with a criteria text,
\* a record as search_trials returns it, a record without eligibility, and
\* an item that is no record at all
TrialItems ==
    <<TrialWith("Inclusion Criteria: age 18+"),
      TrialWith("Inclusion Criteria:\n adults \n\nExclusion Criteria:\n pregnancy \n"),
      TrialWith("Exclusion Criteria: minors Inclusion Criteria: everyone"),
      TrialWith("Inclusion Criteria a Inclusion Criteria b Exclusion Criteria c Exclusion Criteria d"),
      TrialWith("Exclusion Criteria: none"),
      TrialWith("Eligibility: see protocol"),
      TrialWith(""),
      JDict(ParseStudy(StudyA, FALSE)),
      JDict(EmptyDict),
      JStr("NCT00000001")>>

TrialListChoices == UNION {[1..n -> 1..Len(TrialItems)] : n \in 0..MaxTrials}
TrialListAt(f) == JList([i \in DOMAIN f |-> TrialItems[f[i]]])

\* what else may be handed over instead of a list of trials
NonListInputs ==
    <<JDict([error |-> "boom"]),
      JDict([error |-> "404 Error for url", count |-> 0]),
      JDict([nctId |-> "NCT00000001"])>>

\* isinstance(trials, dict) and "error" in trials
IsErrorValue(x) == x.type = "dict" /\ "error" \in DOMAIN x.val

\* for trial in trials: the items a Python for loop visits (a dict yields its keys)
RECURSIVE SetToSeq(_)
SetToSeq(S) == IF S = {} THEN <<>>
               ELSE LET x == CHOOSE x \in S : TRUE IN <<x>> \o SetToSeq(S \ {x})
Iterate(x) == IF x.type = "dict" THEN [i \in 1..Cardinality(DOMAIN x.val) |->
                                          JStr(SetToSeq(DOMAIN x.val)[i])]
              ELSE x.val

\* the piece before the marker taken instead of the piece after it
InclusionFragmentBefore(criteria_text) == Strip(Split(criteria_text, InclusionMarker)[1])

\* lines 304-308
InclusionFragment(criteria_text) ==
    LET inclusion_text == Split(criteria_text, InclusionMarker)[2]
    IN  Strip(IF Contains(inclusion_text, ExclusionMarker)
              THEN Split(inclusion_text, ExclusionMarker)[1]
              ELSE inclusion_text)

\* the trimming forgotten
ExclusionFragmentUntrimmed(criteria_text) == Split(criteria_text, ExclusionMarker)[2]

\* lines 310-312
ExclusionFragment(criteria_text) == Strip(Split(criteria_text, ExclusionMarker)[2])

\* lines 298-315: the loop body for one trial; an item that is no dict raises
\* at trial.get and is skipped
AnalyzeOne(all_criteria, trial) ==
    IF trial.type # "dict" THEN all_criteria
    ELSE LET criteria_text == PyGet(PyGet(trial.val, "eligibility", EmptyDict), "criteria", "")
         IN  IF criteria_text = "" THEN all_criteria
             ELSE [inclusion |->
                     IF Contains(criteria_text, InclusionMarker)
                     THEN Append(all_criteria.inclusion, InclusionFragment(criteria_text))
                     ELSE all_criteria.inclusion,
                   exclusion |->
                     IF Contains(criteria_text, ExclusionMarker)
                     THEN Append(all_criteria.exclusion, ExclusionFragment(criteria_text))
                     ELSE all_criteria.exclusion]

RECURSIVE AnalyzeLoop(_, _)
AnalyzeLoop(all_criteria, items) ==
    IF items = <<>> THEN all_criteria
    ELSE AnalyzeLoop(AnalyzeOne(all_criteria, Head(items)), Tail(items))

\* lines 287-317
AnalyzeCriteriaResult(trials) ==
    IF IsErrorValue(trials) THEN Return("dict", trials.val)
    ELSE Return("dict", AnalyzeLoop([inclusion |-> <<>>, exclusion |-> <<>>],
                                    Iterate(trials)))

AnalyzeCriteriaOn(trials) ==
    /\ pc = "idle"
    /\ op' = "analyze_criteria"
    /\ pc' = "done"
    /\ args' = [trials |-> trials]
    /\ outcome' = AnalyzeCriteriaResult(trials)
    /\ UNCHANGED <<query_parts, params, requests, responses,
                   total_count, page_count, next_token>>
    /\ UNCHANGED agent_vars

\* lines 287-317: no fetch, the whole call is one step
AnalyzeCriteria ==
    \/ \E i \in 1..Len(NonListInputs) : AnalyzeCriteriaOn(NonListInputs[i])
    \/ \E f \in TrialListChoices : AnalyzeCriteriaOn(TrialListAt(f))

\* ------------------------------------------------------ datetime.strptime

Digits == <<"0", "1", "2", "3", "4", "5", "6", "7", "8", "9">>

IsDigit(c) == \E i \in 1..10 : Digits[i] = c
DigitVal(c) == (CHOOSE i \in 1..10 : Digits[i] = c) - 1

Char(s, i) == SubSeq(s, i, i)
AllDigits(s) == \A i \in 1..Len(s) : IsDigit(Char(s, i))

RECURSIVE ParseNat(_)
ParseNat(s) == IF s = "" THEN 0
               ELSE 10 * ParseNat(SubSeq(s, 1, Len(s) - 1)) + DigitVal(Char(s, Len(s)))

NoMatch == -1

\* %Y : \d\d\d\d
MatchYear(s) == IF Len(s) = 4 /\ AllDigits(s) THEN ParseNat(s) ELSE NoMatch

\* %m : 1[0-2]|0[1-9]|[1-9]
MatchMonth(s) ==
    IF Len(s) \in {1, 2} /\ AllDigits(s) /\ ParseNat(s) \in 1..12 THEN ParseNat(s)
    ELSE NoMatch

\* %d : 3[0-1]|[1-2]\d|0[1-9]|[1-9]| [1-9]
MatchDay(s) ==
    IF Len(s) \in {1, 2} /\ AllDigits(s) /\ ParseNat(s) \in 1..31 THEN ParseNat(s)
    ELSE IF Len(s) = 2 /\ Char(s, 1) = " " /\ IsDigit(Char(s, 2)) /\ Char(s, 2) # "0"
    THEN ParseNat(Char(s, 2))
    ELSE NoMatch

MonthNames == <<"january", "february", "march", "april", "may", "june", "july",
                "august", "september", "october", "november", "december">>

UpperCase == "ABCDEFGHIJKLMNOPQRSTUVWXYZ"
LowerCase == "abcdefghijklmnopqrstuvwxyz"

LowerChar(c) ==
    IF \E i \in 1..26 : Char(UpperCase, i) = c
    THEN Char(LowerCase, CHOOSE i \in 1..26 : Char(UpperCase, i) = c)
    ELSE c

RECURSIVE Lower(_)
Lower(s) == IF s = "" THEN "" ELSE LowerChar(Char(s, 1)) \o Lower(Tail(s))

\* %B : a full month name, matched without regard to case
MatchMonthName(s) ==
    IF \E i \in 1..12 : MonthNames[i] = Lower(s)
    THEN CHOOSE i \in 1..12 : MonthNames[i] = Lower(s)
    ELSE NoMatch

IsLeap(y) == (y % 4 = 0 /\ y % 100 # 0) \/ y % 400 = 0

DaysInMonth(y, m) ==
    IF m = 2 THEN (IF IsLeap(y) THEN 29 ELSE 28)
    ELSE IF m \in {4, 6, 9, 11} THEN 30 ELSE 31

\* datetime(y, m, d), or None when a field did not match or the date does not exist
NoDate == [valid |-> FALSE, ordinal |-> 0]

RECURSIVE DaysBeforeMonth(_, _)
DaysBeforeMonth(y, m) == IF m = 1 THEN 0 ELSE DaysBeforeMonth(y, m - 1) + DaysInMonth(y, m - 1)

\* date.toordinal(): days since 0001-01-01, that day being 1
Ordinal(y, m, d) ==
    (y - 1) * 365 + ((y - 1) \div 4) - ((y - 1) \div 100) + ((y - 1) \div 400)
    + DaysBeforeMonth(y, m) + d

MakeDate(y, m, d) ==
    IF y = NoMatch \/ m = NoMatch \/ d = NoMatch THEN NoDate
    ELSE IF y < 1 \/ d > DaysInMonth(y, m) THEN NoDate
    ELSE [valid |-> TRUE, ordinal |-> Ordinal(y, m, d)]

\* the text up to the first white space, and the text after that run of white space
FirstWord(s) ==
    LET ws == {i \in 1..Len(s) : Char(s, i) \in Whitespace}
    IN  IF ws = {} THEN s ELSE SubSeq(s, 1, (CHOOSE i \in ws : \A j \in ws : i <= j) - 1)
AfterFirstWord(s) ==
    IF FirstWord(s) = s THEN "" ELSE LStrip(SubSeq(s, Len(FirstWord(s)) + 1, Len(s)))

\* strptime(date_str, "%Y-%m-%d")
ParseYmd(s) ==
    LET p == Split(s, "-")
    IN  IF Len(p) # 3 THEN NoDate
        ELSE MakeDate(MatchYear(p[1]), MatchMonth(p[2]), MatchDay(p[3]))

\* strptime(date_str, "%Y-%m")
ParseYm(s) ==
    LET p == Split(s, "-")
    IN  IF Len(p) # 2 THEN NoDate ELSE MakeDate(MatchYear(p[1]), MatchMonth(p[2]), 1)

\* strptime(date_str, "%B %Y")
ParseBY(s) ==
    IF FirstWord(s) = s THEN NoDate
    ELSE MakeDate(MatchYear(AfterFirstWord(s)), MatchMonthName(FirstWord(s)), 1)

\* strptime(date_str, "%B %d, %Y")
ParseBdY(s) ==
    LET rest == AfterFirstWord(s)
        p == Split(rest, ",")
    IN  IF FirstWord(s) = s \/ Len(p) # 2 THEN NoDate
        ELSE IF p[2] = "" \/ Char(p[2], 1) \notin Whitespace THEN NoDate
        ELSE MakeDate(MatchYear(LStrip(p[2])), MatchMonthName(FirstWord(s)), MatchDay(p[1]))

\* lines 382-388: the first format that parses
parse_date(date_str) ==
    IF ParseYmd(date_str).valid THEN ParseYmd(date_str)
    ELSE IF ParseYm(date_str).valid THEN ParseYm(date_str)
    ELSE IF ParseBY(date_str).valid THEN ParseBY(date_str)
    ELSE ParseBdY(date_str)

\* ---------------------------------------------------- calculate_statistics

\* a Python float, kept as an exact fraction in lowest terms
RECURSIVE Gcd(_, _)
Gcd(a, b) == IF b = 0 THEN a ELSE Gcd(b, a % b)
Float(num, den) == [num |-> num \div Gcd(num, den), den |-> den \div Gcd(num, den)]

\* round(num / den, digits) with scale = 10^digits: to the nearest, ties to even
Round(num, den, scale) ==
    LET q == (num * scale) \div den
        r == (num * scale) % den
        n == IF 2 * r > den \/ (2 * r = den /\ q % 2 = 1) THEN q + 1 ELSE q
    IN  Float(n, scale)

\* every record counted twice
IncrTwice(d, k) == IF k \in DOMAIN d THEN [d EXCEPT ![k] = @ + 2] ELSE d @@ (k :> 2)

\* d[k] = d.get(k, 0) + 1
Incr(d, k) == IF k \in DOMAIN d THEN [d EXCEPT ![k] = @ + 1] ELSE d @@ (k :> 1)

RECURSIVE IncrAll(_, _)
IncrAll(d, ks) == IF ks = <<>> THEN d ELSE IncrAll(Incr(d, Head(ks)), Tail(ks))

\* the equal-dates test let through
DurationOfNonStrict(trial) ==
    LET start_date == parse_date(trial.dates.start)
        completion_date == parse_date(trial.dates.completion)
    IN  IF trial.dates.start # "" /\ trial.dates.completion # ""
           /\ start_date.valid /\ completion_date.valid
           /\ completion_date.ordinal >= start_date.ordinal
        THEN <<completion_date.ordinal - start_date.ordinal>>
        ELSE <<>>

\* lines 375-397: the duration a trial adds, as a list of zero or one day counts
DurationOf(trial) ==
    LET start_date_str == trial.dates.start
        completion_date_str == trial.dates.completion
        start_date == parse_date(start_date_str)
        completion_date == parse_date(completion_date_str)
    IN  IF start_date_str # "" /\ completion_date_str # ""
           /\ start_date.valid /\ completion_date.valid
           /\ completion_date.ordinal > start_date.ordinal
        THEN <<completion_date.ordinal - start_date.ordinal>>
        ELSE <<>>

\* the Python type of a JSON value, read off the value's printed form
PyType(x) ==
    LET s == ToString(x)
        c == SubSeq(s, 1, 1)
    IN  IF c = "\"" THEN (IF x = None THEN "NoneType" ELSE "str")
        ELSE IF c = "<" THEN "list"
        ELSE IF c = "[" THEN "dict"
        ELSE IF s \in {"TRUE", "FALSE"} THEN "bool"
        ELSE "int"

\* line 353: `for phase in phases` raises TypeError when phases is JSON null
PhasesRaise(trial) == PyType(trial.phases) = "NoneType"

\* line 370: "count" in enrollment and enrollment["count"]
HasCount(trial) ==
    LET count == trial.enrollment.count
    IN  IF PyType(count) = "int" THEN count # 0
        ELSE IF PyType(count) = "str" THEN count # ""
        ELSE FALSE

\* line 371: adding a str to the int total raises TypeError
EnrollmentRaises(trial) == HasCount(trial) /\ PyType(trial.enrollment.count) # "int"

\* lines 350-402: the loop body for one trial. What was updated before a
\* statement raises stays updated: `except Exception: continue` undoes nothing
StatsOne(stats, trial) ==
    IF PhasesRaise(trial) THEN stats
    ELSE LET tables == [stats EXCEPT
                          !.phases = IncrAll(@, trial.phases),
                          !.statuses = Incr(@, trial.status),
                          !.studyTypes = Incr(@, trial.studyType),
                          !.sponsors = Incr(@, trial.sponsor)]
             d == DurationOf(trial)
         IN  IF EnrollmentRaises(trial) THEN tables
             ELSE [tables EXCEPT
                     !.enrollment = IF HasCount(trial)
                                    THEN [total |-> @.total + trial.enrollment.count,
                                          count |-> @.count + 1]
                                    ELSE @,
                     !.duration = IF d # <<>>
                                  THEN [total_days |-> @.total_days + d[1],
                                        count |-> @.count + 1,
                                        durations |-> Append(@.durations, d[1])]
                                  ELSE @]

RECURSIVE StatsLoop(_, _)
StatsLoop(stats, trials) ==
    IF trials = <<>> THEN stats ELSE StatsLoop(StatsOne(stats, Head(trials)), Tail(trials))

SeqMin(s) == CHOOSE x \in {s[i] : i \in 1..Len(s)} : \A j \in 1..Len(s) : x <= s[j]
SeqMax(s) == CHOOSE x \in {s[i] : i \in 1..Len(s)} : \A j \in 1..Len(s) : x >= s[j]

\* [t.get("nctId") for t in trials if t.get("nctId")]
RECURSIVE NctIdsOf(_)
NctIdsOf(trials) ==
    IF trials = <<>> THEN <<>>
    ELSE (IF Head(trials).nctId # "" THEN <<Head(trials).nctId>> ELSE <<>>)
         \o NctIdsOf(Tail(trials))

\* lines 338-347
InitialStats(trials) ==
    [total_trials |-> Len(trials),
     trial_nct_ids |-> NctIdsOf(trials),
     phases |-> EmptyDict, statuses |-> EmptyDict, studyTypes |-> EmptyDict,
     sponsors |-> EmptyDict,
     enrollment |-> [total |-> 0, count |-> 0],
     duration |-> [total_days |-> 0, count |-> 0, durations |-> <<>>]]

\* lines 404-405
FinalEnrollment(e) ==
    IF e.count > 0 THEN e @@ ("average" :> Float(e.total, e.count)) ELSE e

\* lines 407-421
FinalDuration(d) ==
    LET kept == [total_days |-> d.total_days, count |-> d.count]
    IN  IF d.count > 0
        THEN kept @@ [average_days |-> Round(d.total_days, d.count, 10),
                      average_months |-> Round(d.total_days * 100, d.count * 3044, 10),
                      average_years |-> Round(d.total_days * 100, d.count * 36525, 100),
                      min_days |-> SeqMin(d.durations),
                      max_days |-> SeqMax(d.durations)]
        ELSE kept

\* the duration entry left out when no record has a duration
StatisticsDurationDropped(trials) ==
    LET stats == StatsLoop(InitialStats(trials), trials)
        kept == IF stats.duration.count > 0 THEN DOMAIN stats
                ELSE DOMAIN stats \ {"duration"}
    IN  [k \in kept |->
           IF k = "enrollment" THEN FinalEnrollment(stats[k])
           ELSE IF k = "duration" THEN FinalDuration(stats[k])
           ELSE stats[k]]

\* lines 338-423: the bundle computed from the records search_trials returned
Statistics(trials) ==
    LET stats == StatsLoop(InitialStats(trials), trials)
    IN  [stats EXCEPT !.enrollment = FinalEnrollment(@), !.duration = FinalDuration(@)]

\* records for the statistics fold: dates of month granularity, a start date
\* of year granularity (no format of parse_date reads it), an enrollment count
\* sent as a string, and phases sent as null
StatsStudy(id, status, start, completion, phases, count) ==
    [protocolSection |->
      [identificationModule |-> [nctId |-> id],
       statusModule |-> [overallStatus |-> status,
                         startDateStruct |-> [date |-> start],
                         completionDateStruct |-> [date |-> completion]],
       sponsorCollaboratorsModule |-> [leadSponsor |-> [name |-> "NIH"]],
       designModule |-> [studyType |-> "OBSERVATIONAL", phases |-> phases,
                         enrollmentInfo |-> [count |-> count]]]]

StudyMonths == StatsStudy("NCT00000003", "COMPLETED", "2019-03", "March 2020", <<"PHASE1">>, 40)
StudyYearOnly == StatsStudy("NCT00000004", "COMPLETED", "2019", "2021-01-15", <<"PHASE1">>, 10)
StudyOnlyStart == StatsStudy("NCT00000005", "RECRUITING", "2022-02-01", "", <<>>, 0)
StudyStrCount ==
    StatsStudy("NCT00000006", "RECRUITING", "2018-01-01", "2018-01-31", <<"PHASE4">>, "12")
StudyNullPhases == StatsStudy("NCT00000007", "TERMINATED", "2018-01-01", "2018-03-02", None, 50)

StatsLists ==
    <<<<StudyMonths>>, <<StudyYearOnly>>, <<StudyOnlyStart>>, <<StudyStrCount>>,
      <<StudyNullPhases>>,
      <<StudyA, StudyMonths>>, <<StudyYearOnly, StudyMonths>>,
      <<StudyOnlyStart, StudyB, StudyEmpty>>,
      <<StudyA, StudyStrCount>>, <<StudyStrCount, StudyA>>,
      <<StudyNullPhases, StudyMonths>>, <<StudyA, StudyNullPhases, StudyStrCount>>>>

StatsArgs ==
    [condition : {None, "asthma"}, phase : {None, "PHASE3"},
     status : {None, "COMPLETED"}, location : {None, "France"},
     sponsor : {None, "Pfizer"}, max_results : MaxResultsVals]

\* lines 326-333: the keyword arguments handed to search_trials
StatsSearchArgs(a) ==
    [condition |-> a.condition, phase |-> a.phase, status |-> a.status,
     location |-> a.location, sponsor |-> a.sponsor, intervention |-> None,
     study_type |-> None, start_date_from |-> None, start_date_to |-> None,
     max_results |-> a.max_results]

\* the error dressed up as an empty bundle
StatisticsResultWrapped(resp) ==
    LET trials == SearchResult(resp)
    IN  IF IsErrorReturn(trials)
        THEN Return("dict", trials.value @@ [total_trials |-> 0])
        ELSE Return("dict", Statistics(trials.value))

\* lines 326-423 once search_trials has its answer
StatisticsResult(resp) ==
    LET trials == SearchResult(resp)
    IN  IF IsErrorReturn(trials) THEN trials
        ELSE Return("dict", Statistics(trials.value))

\* lines 326-333 with search_trials' lines 243-273
CallCalculateStatistics ==
    /\ StartCall("calculate_statistics")
    /\ \E a \in StatsArgs :
         /\ args' = a
         /\ query_parts' = SearchQueryParts(StatsSearchArgs(a))
         /\ params' = BuildParams(ClampMaxResults(a.max_results),
                                  SearchQueryParts(StatsSearchArgs(a)))

CalculateStatisticsOn(resp) ==
    /\ pc = "fetch"
    /\ op = "calculate_statistics"
    /\ OneFetch(resp)
    /\ outcome' = StatisticsResult(resp)

\* search_trials' lines 275-284, then lines 335-423
CalculateStatisticsFetch ==
    \/ \E i \in 1..Len(FixedListResponses) : CalculateStatisticsOn(FixedListResponses[i])
    \/ \E f \in StudyListChoices : CalculateStatisticsOn(OkList(StudyListAt(f)))
    \/ \E i \in 1..Len(StatsLists) : CalculateStatisticsOn(OkList(StatsLists[i]))

\* ----------------------------------------------- _parse_study on its own

\* d without the keys outside K
Restrict(d, K) == [k \in K |-> d[k]]

\* the registry's complete record with any subset of its modules missing
ModulesMissing ==
    {[protocolSection |-> Restrict(StudyA.protocolSection, K)] :
       K \in SUBSET DOMAIN StudyA.protocolSection}

\* ... with any subset of the fields of one module missing
FieldsMissing ==
    UNION {{[protocolSection |-> [StudyA.protocolSection EXCEPT ![mod] = Restrict(@, K)]] :
              K \in SUBSET DOMAIN StudyA.protocolSection[mod]} :
           mod \in DOMAIN StudyA.protocolSection}

\* the nested objects of a module: <<module, key>>
NestedObjects ==
    {<<"identificationModule", "organization">>,
     <<"statusModule", "startDateStruct">>,
     <<"statusModule", "completionDateStruct">>,
     <<"sponsorCollaboratorsModule", "leadSponsor">>,
     <<"sponsorCollaboratorsModule", "responsibleParty">>,
     <<"designModule", "enrollmentInfo">>,
     <<"designModule", "designInfo">>}

\* ... with any subset of the fields of one nested object missing
NestedFieldsMissing ==
    UNION {{[protocolSection |->
               [StudyA.protocolSection EXCEPT ![o[1]][o[2]] = Restrict(@, K)]] :
              K \in SUBSET DOMAIN StudyA.protocolSection[o[1]][o[2]]} :
           o \in NestedObjects}

\* records in which something is missing (nothing is null)
PartialStudies == ModulesMissing \cup FieldsMissing \cup NestedFieldsMissing

\* the sparse record and {}; then records in which an object is null
\* instead of missing
OtherStudies ==
    <<StudyB, StudyEmpty,
      [protocolSection |-> None],
      [protocolSection |-> [StudyB.protocolSection EXCEPT !.statusModule = None]]>>

\* x.get(...) on None raises AttributeError: lines 70-156 call .get on the
\* protocol section and on each of its modules
NullObject(study) ==
    LET protocol == PyGet(study, "protocolSection", EmptyDict)
    IN  \/ PyType(protocol) = "NoneType"
        \/ \E mod \in DOMAIN protocol : PyType(protocol[mod]) = "NoneType"

\* _parse_study(study, full_details) as a call: the record, or the exception
ParseStudyOutcome(study, full_details) ==
    IF NullObject(study) THEN Raise("'NoneType' object has no attribute 'get'")
    ELSE Return("dict", ParseStudy(study, full_details))

\* lines 68-222: no fetch, the whole call is one step
ParseStudyOn(study, full_details) ==
    /\ pc = "idle"
    /\ op' = "_parse_study"
    /\ pc' = "done"
    /\ args' = [study |-> study, full_details |-> full_details]
    /\ outcome' = ParseStudyOutcome(study, full_details)
    /\ UNCHANGED <<query_parts, params, requests, responses,
                   total_count, page_count, next_token>>
    /\ UNCHANGED agent_vars

NormalizeStudy ==
    \/ \E study \in PartialStudies, full_details \in BOOLEAN :
         ParseStudyOn(study, full_details)
    \/ \E i \in 1..Len(OtherStudies), full_details \in BOOLEAN :
         ParseStudyOn(OtherStudies[i], full_details)

\* ------------------------------------------------------------------- Agent

\* run() calls of one session
MaxRuns == 2

\* tool calls of one oracle answer
MaxToolCalls == 2

SYSTEM_PROMPT == "You are a helpful clinical trial feasibility assistant."

\* a message of the history; a key the message does not carry is None, and
\* tool_calls is empty when the message asks for no tool (line 204 takes
\* None and [] alike)
Message(role, content, calls, tool_call_id, name) ==
    [role |-> role, content |-> content, tool_calls |-> calls,
     tool_call_id |-> tool_call_id, name |-> name]

\* lines 172, 177
SystemMessage == Message("system", SYSTEM_PROMPT, <<>>, None, None)

\* line 190
UserMessage(user_question) == Message("user", user_question, <<>>, None, None)

\* lines 205, 211: the oracle's message object, stored as it came
ResponseMessage(content, calls) == Message("assistant", content, calls, None, None)

\* lines 232-237
ToolMessage(tool_call, content) ==
    Message("tool", content, <<>>, tool_call.id, tool_call.name)

\* line 249
AnswerMessage(answer) == Message("assistant", answer, <<>>, None, None)

Questions == {"How many sites has NCT00000001?"}

\* the argument texts the oracle writes: two objects naming a trial, and a
\* text cut off in the middle
ArgumentTexts ==
    <<"{\"nctId\": \"NCT00000001\"}", "{\"nctId\": \"NCT00000002\"}", "{\"nctId\": ">>

\* line 215: json.loads of the argument text
JsonLoads(text) ==
    IF text = ArgumentTexts[1] THEN [raised |-> FALSE, val |-> [nctId |-> "NCT00000001"]]
    ELSE IF text = ArgumentTexts[2] THEN [raised |-> FALSE, val |-> [nctId |-> "NCT00000002"]]
    ELSE [raised |-> TRUE, exc |-> "JSONDecodeError"]

\* lines 141-148
AVAILABLE_FUNCTIONS ==
    {"count_trials", "search_trials", "show_trials", "analyze_criteria",
     "calculate_statistics", "extract_sites"}

\* what one tool call of an oracle answer asks for: a trial shown by either
\* id, a call with cut-off arguments, a call of a function that does not exist
CallKinds ==
    <<[name |-> "show_trials", arguments |-> ArgumentTexts[1]],
      [name |-> "show_trials", arguments |-> ArgumentTexts[2]],
      [name |-> "show_trials", arguments |-> ArgumentTexts[3]],
      [name |-> "lookup_trial", arguments |-> ArgumentTexts[1]]>>

\* tool_call.id: unique in the session
CallId(run, i) == "call_" \o ToString(run) \o "_" \o ToString(i)

\* lines 200-201: response_message.tool_calls, kinds[i] chosen by the oracle
ToolCalls(run, kinds) ==
    [i \in 1..Len(kinds) |->
       [id |-> CallId(run, i), name |-> CallKinds[kinds[i]].name,
        arguments |-> CallKinds[kinds[i]].arguments]]

ToolCallChoices ==
    UNION {[1..n -> 1..Len(CallKinds)] : n \in 1..MaxToolCalls}

\* line 236: json.dumps(function_response), the text of the value
JsonDumps(function_response) == ToString(function_response)

\* the run is over: run() returned, or raised and main's handler (main.py
\* lines 99-101) logged the exception and went back to the prompt
RunEnds(result) ==
    /\ agent_pc' = "idle"
    /\ tool_calls' = <<>>
    /\ tool_index' = 0
    /\ run_outcome' = result

\* the variables of the tool layer, untouched by the agent's own steps
tool_vars == <<op, pc, args, query_parts, params, requests, responses,
               total_count, page_count, next_token, outcome>>

\* lines 181-211: the question is stored, then the first oracle call raises,
\* answers in text, or asks for tools
AgentRun ==
    /\ agent_pc = "idle"
    /\ pc = "idle"
    /\ runs < MaxRuns
    /\ runs' = runs + 1
    /\ \E user_question \in Questions :
         LET asked == Append(messages, UserMessage(user_question))
         IN  \/ /\ messages' = asked
                /\ RunEnds(Raise("APIError"))
             \/ /\ messages' = Append(asked, ResponseMessage("No tool is needed.", <<>>))
                /\ RunEnds(Return("str", "No tool is needed."))
             \/ \E kinds \in ToolCallChoices :
                  /\ messages' = Append(asked, ResponseMessage(None, ToolCalls(runs', kinds)))
                  /\ agent_pc' = "tools"
                  /\ tool_calls' = ToolCalls(runs', kinds)
                  /\ tool_index' = 1
                  /\ run_outcome' = [how |-> "none"]
    /\ UNCHANGED tool_vars

\* lines 214-220: the arguments do not parse, or the function does not exist
ToolCallFails ==
    /\ agent_pc = "tools"
    /\ pc = "idle"
    /\ LET tool_call == tool_calls[tool_index]
           function_args == JsonLoads(tool_call.arguments)
       IN  /\ function_args.raised \/ tool_call.name \notin AVAILABLE_FUNCTIONS
           /\ RunEnds(Raise(IF function_args.raised THEN function_args.exc ELSE "KeyError"))
    /\ UNCHANGED <<messages, runs>>
    /\ UNCHANGED tool_vars

\* lines 214-226: function_to_call(**function_args) enters show_trials
CallTool ==
    /\ agent_pc = "tools"
    /\ LET tool_call == tool_calls[tool_index]
           function_args == JsonLoads(tool_call.arguments)
       IN  /\ ~function_args.raised
           /\ tool_call.name = "show_trials"
           /\ CallShowTrials
           /\ args' = function_args.val

\* lines 226-237: the tool raised and the run ends, or it returned and its
\* result is stored under the call's id; after the last call the loop ends
ToolReturns ==
    /\ agent_pc = "tools"
    /\ pc = "done"
    /\ IF outcome.how = "raise"
       THEN /\ RunEnds(outcome)
            /\ UNCHANGED messages
       ELSE /\ messages' = Append(messages,
                                  ToolMessage(tool_calls[tool_index], JsonDumps(outcome.value)))
            /\ tool_index' = tool_index + 1
            /\ agent_pc' = IF tool_index = Len(tool_calls) THEN "summarize" ELSE "tools"
            /\ UNCHANGED <<tool_calls, run_outcome>>
    /\ pc' = "idle"
    /\ op' = "idle"
    /\ args' = EmptyDict
    /\ query_parts' = <<>>
    /\ params' = EmptyDict
    /\ requests' = <<>>
    /\ responses' = <<>>
    /\ outcome' = [how |-> "none"]
    /\ UNCHANGED <<total_count, page_count, next_token, runs>>

\* lines 240-255: the second oracle call raises, gives no parsed answer
\* (result.answer fails on None), or gives the structured answer
Summarize ==
    /\ agent_pc = "summarize"
    /\ \/ /\ RunEnds(Raise("APIError"))
          /\ UNCHANGED messages
       \/ /\ RunEnds(Raise("'NoneType' object has no attribute 'answer'"))
          /\ UNCHANGED messages
       \/ /\ messages' = Append(messages, AnswerMessage("Here is the trial."))
          /\ RunEnds(Return("FeasibilityResponse", "Here is the trial."))
    /\ UNCHANGED runs
    /\ UNCHANGED tool_vars

\* lines 175-179, called by main.py lines 36-39
ClearMemory ==
    /\ agent_pc = "idle"
    /\ pc = "idle"
    /\ messages' = <<SystemMessage>>
    /\ UNCHANGED <<agent_pc, tool_calls, tool_index, run_outcome, runs>>
    /\ UNCHANGED tool_vars

\* ---------------------------------------------------------- specification

\* the caller takes the result; the next call starts from scratch
Finish ==
    /\ pc = "done"
    /\ pc' = "idle"
    /\ op' = "idle"
    /\ args' = EmptyDict
    /\ query_parts' = <<>>
    /\ params' = EmptyDict
    /\ requests' = <<>>
    /\ responses' = <<>>
    /\ total_count' = 0
    /\ page_count' = 0
    /\ next_token' = None
    /\ outcome' = [how |-> "none"]
    /\ UNCHANGED agent_vars

Init ==
    /\ pc = "idle"
    /\ op = "idle"
    /\ args = EmptyDict
    /\ query_parts = <<>>
    /\ params = EmptyDict
    /\ requests = <<>>
    /\ responses = <<>>
    /\ total_count = 0
    /\ page_count = 0
    /\ next_token = None
    /\ outcome = [how |-> "none"]
    /\ messages = <<SystemMessage>>
    /\ agent_pc = "idle"
    /\ tool_calls = <<>>
    /\ tool_index = 0
    /\ run_outcome = [how |-> "none"]
    /\ runs = 0

Next ==
    \/ CallCountTrials
    \/ CountTrialsPage
    \/ CallSearchTrials
    \/ SearchTrialsFetch
    \/ CallShowTrials
    \/ ShowTrialsFetch
    \/ CallExtractSites
    \/ ExtractSitesFetch
    \/ AnalyzeCriteria
    \/ CallCalculateStatistics
    \/ CalculateStatisticsFetch
    \/ NormalizeStudy
    \/ Finish

Spec == Init /\ [][Next]_vars

\* calls of one operation, or one layer, only
CountNext == CallCountTrials \/ CountTrialsPage \/ Finish
CountSpec == Init /\ [][CountNext]_vars

SearchNext == CallSearchTrials \/ SearchTrialsFetch \/ Finish
SearchSpec == Init /\ [][SearchNext]_vars

ParseNext == NormalizeStudy \/ Finish
ParseSpec == Init /\ [][ParseNext]_vars

SitesNext == CallExtractSites \/ ExtractSitesFetch \/ Finish
SitesSpec == Init /\ [][SitesNext]_vars

AggregateNext ==
    AnalyzeCriteria \/ CallCalculateStatistics \/ CalculateStatisticsFetch \/ Finish
AggregateSpec == Init /\ [][AggregateNext]_vars

\* the chat session of main.py: questions and clear commands, the tools
\* reached only through the agent
AgentNext ==
    AgentRun \/ ToolCallFails \/ CallTool \/ ShowTrialsFetch \/ ToolReturns
      \/ Summarize \/ ClearMemory
AgentSpec == Init /\ [][AgentNext]_vars

\* ------------------------------------------------------------- properties

\* a transport or parse failure of a request: timeout, connection failure,
\* non-2xx status, a body that is no JSON, or JSON that is no object
IsFailure(resp) ==
    \/ resp.fail # "none"
    \/ resp.status \notin 200..299
    \/ ~resp.parses
    \/ resp.data.type # "dict"

\* a page the registry delivered
IsPage(resp) == ~IsFailure(resp)

\* the page names a next page (an empty token names none)
CarriesToken(resp) ==
    /\ IsPage(resp)
    /\ "nextPageToken" \in DOMAIN resp.data.val
    /\ resp.data.val["nextPageToken"] # ""

PageSize(resp) ==
    IF "studies" \in DOMAIN resp.data.val THEN Len(resp.data.val["studies"]) ELSE 0

RECURSIVE SumOfPages(_)
SumOfPages(resps) ==
    IF resps = <<>> THEN 0 ELSE PageSize(Head(resps)) + SumOfPages(Tail(resps))

Done(name) == op = name /\ pc = "done"
Returned == outcome.how = "return"
IsCount(o) == o.how = "return" /\ o.pytype = "dict" /\ "count" \in DOMAIN o.value

\* C1: count_trials returns {count, is_exact=True}, count being the sum of the
\* sizes of all pages fetched, whenever a fetched page carries no next-page
\* token; it returns is_exact=False, with the note "At least <count> trials",
\* exactly when the third page was fetched and still carried a token.
C1_CountExactness ==
    op = "count_trials" =>
      /\ (\E i \in 1..Len(responses) : IsPage(responses[i]) /\ ~CarriesToken(responses[i]))
           => /\ pc = "done"
              /\ outcome = Return("dict", [count |-> SumOfPages(responses),
                                           is_exact |-> TRUE])
      /\ pc = "done" =>
           /\ (IsCount(outcome) /\ ~outcome.value.is_exact)
                <=> (Len(responses) = 3 /\ CarriesToken(responses[3]))
           /\ (IsCount(outcome) /\ ~outcome.value.is_exact)
                => /\ outcome.value.count = SumOfPages(responses)
                   /\ outcome.value.note
                        = "At least " \o ToString(SumOfPages(responses)) \o " trials"

\* three pages fetched, the third still naming a next one: a lower bound of 201
C1_Witness ==
    /\ Done("count_trials")
    /\ Len(responses) = 3
    /\ IsCount(outcome)
    /\ ~outcome.value.is_exact
    /\ outcome.value.count = 201

\* C2: whatever the registry answers, count_trials ends after at most 3
\* requests, each with pageSize=100, and if every page holds at most pageSize
\* records the count returned is at most 300.
C2_CountBounded ==
    op = "count_trials" =>
      /\ Len(requests) <= 3
      /\ Len(requests) = 3 => pc = "done"
      /\ \A i \in 1..Len(requests) : requests[i].params["pageSize"] = 100
      /\ (/\ pc = "done"
          /\ IsCount(outcome)
          /\ \A i \in 1..Len(responses) :
               PageSize(responses[i]) <= requests[i].params["pageSize"])
           => outcome.value.count <= 300

\* the registry never stops naming a next page: three full pages, 300 counted
C2_Witness ==
    /\ Done("count_trials")
    /\ Len(requests) = 3
    /\ \A i \in 1..3 : CarriesToken(responses[i])
    /\ IsCount(outcome)
    /\ outcome.value.count = 300

LastResponse == responses[Len(responses)]

\* C3: in count_trials, search_trials, show_trials and extract_sites a request
\* that fails (timeout, connection failure, non-2xx status, malformed body)
\* makes the call return {"error": <message>}; nothing is raised to the caller.
C3_FailuresReturnedAsErrors ==
    (/\ op \in {"count_trials", "search_trials", "show_trials", "extract_sites"}
     /\ pc = "done"
     /\ IsFailure(LastResponse))
      => /\ Returned
         /\ IsErrorReturn(outcome)
         /\ DOMAIN outcome.value = {"error"}

\* C4: show_trials returns a trial record only when the registry answered the
\* fetch successfully; on a non-2xx status the HTTP error reaches the caller
\* and no record is returned.
C4_ShowRecordOnlyOnSuccess ==
    Done("show_trials") =>
      /\ Returned => LastResponse.fail = "none" /\ LastResponse.status \in 200..299
      /\ (LastResponse.fail = "none" /\ LastResponse.status \notin 200..299)
           => outcome.how = "raise"

\* the studies of the answer a one-page call got
AnsweredStudies == PyGet(LastResponse.data.val, "studies", <<>>)

IsList(o) == o.how = "return" /\ o.pytype = "list"

\* C5 as stated: search_trials(max_results=N) returns at most min(N, 20)
\* records, and for N > 20 sends the request it sends for N = 20.
C5_AtMostMinN20 ==
    Done("search_trials") =>
      /\ IsList(outcome) => Len(outcome.value) <= Min(args.max_results, 20)
      /\ args.max_results > 20
           => requests = <<Request(CT_API_BASE,
                                   BuildParams(20, SearchQueryParts(args)))>>

\* C5 as amended: search_trials(max_results=N) asks for pageSize = min(N, 20)
\* and returns one record per study of the answer, so at most min(N, 20)
\* records provided the answer holds at most pageSize studies; for N > 20 it
\* sends the request it sends for N = 20 and returns what that answer gives.
C5_AtMostPageSizeGivenHonestPage ==
    Done("search_trials") =>
      /\ Len(requests) = 1
      /\ requests[1].params["pageSize"] = Min(args.max_results, 20)
      /\ IsList(outcome) =>
           /\ Len(outcome.value) = Len(AnsweredStudies)
           /\ Len(AnsweredStudies) <= requests[1].params["pageSize"]
                => Len(outcome.value) <= Min(args.max_results, 20)
      /\ args.max_results > 20
           => /\ requests = <<Request(CT_API_BASE,
                                      BuildParams(20, SearchQueryParts(args)))>>
              /\ outcome = SearchResult(LastResponse)

\* 25 asked for, 20 requested, the registry's 20 records returned
C5_Witness ==
    /\ Done("search_trials")
    /\ args.max_results = 25
    /\ requests[1].params["pageSize"] = 20
    /\ IsList(outcome)
    /\ Len(outcome.value) = 20

BaseFields == <<"condition", "phase", "status", "location">>
PlainFields == BaseFields \o <<"sponsor", "intervention", "study_type">>
DateFields == <<"start_date_from", "start_date_to">>

Range(seq) == {seq[i] : i \in 1..Len(seq)}

\* the filter fields of the running call, in declaration order
FilterFields ==
    IF op = "search_trials" THEN PlainFields \o DateFields
    ELSE IF op = "calculate_statistics" THEN BaseFields \o <<"sponsor">>
    ELSE BaseFields

IsPresent(f) == args[f] # None /\ args[f] # ""
NoFilter == \A f \in Range(FilterFields) : ~IsPresent(f)

\* C6: a call of count_trials, search_trials or extract_sites with no filter
\* field present sends requests without a query.term parameter: format and
\* pageSize only (and, on count_trials' later pages, the page token).
C6_NoFilterNoQueryTerm ==
    (op \in {"count_trials", "search_trials", "extract_sites"} /\ NoFilter) =>
      /\ query_parts = <<>>
      /\ "query.term" \notin DOMAIN params
      /\ \A i \in 1..Len(requests) :
           /\ "query.term" \notin DOMAIN requests[i].params
           /\ DOMAIN requests[i].params \subseteq {"format", "pageSize", "pageToken"}
           /\ requests[i].params["format"] = "json"
           /\ "pageToken" \in DOMAIN requests[i].params
                => op = "count_trials" /\ i > 1
      /\ requests # <<>> => DOMAIN requests[1].params = {"format", "pageSize"}

\* an unfiltered count that went on to a second page
C6_Witness ==
    /\ op = "count_trials"
    /\ NoFilter
    /\ args.condition = ""
    /\ Len(requests) = 2
    /\ DOMAIN requests[2].params = {"format", "pageSize", "pageToken"}

AreaOf ==
    [condition |-> "Condition", phase |-> "Phase", status |-> "OverallStatus",
     location |-> "LocationCountry", sponsor |-> "LeadSponsorName",
     intervention |-> "InterventionName", study_type |-> "StudyType"]

NonNull(f) == args[f] # None

\* C7 as stated: the clauses of search_trials' query.term are in one-to-one
\* correspondence with the non-null filter fields, in declaration order.
C7_ClausesBijectiveWithNonNull ==
    op = "search_trials" =>
      LET given == SelectSeq(PlainFields \o DateFields, NonNull)
      IN  /\ Len(query_parts) = Len(given)
          /\ \A i \in 1..Len(given) :
               \/ given[i] \in Range(DateFields)
                    /\ StartsWith(query_parts[i], "AREA[StartDate]")
               \/ given[i] \in Range(PlainFields)
                    /\ StartsWith(query_parts[i], "AREA[" \o AreaOf[given[i]] \o "]")

\* C7 as amended: the clauses are, in declaration order, one for each of
\* condition, phase, status, location, sponsor, intervention and study_type
\* that is non-empty, followed by a single StartDate clause when at least one
\* of start_date_from and start_date_to is non-empty; query.term is these
\* clauses joined by " AND ", and is absent when there is none.
C7_ClausesFollowPresentFields ==
    op = "search_trials" =>
      LET plain == SelectSeq(PlainFields, IsPresent)
          dated == IsPresent("start_date_from") \/ IsPresent("start_date_to")
      IN  /\ Len(query_parts) = Len(plain) + (IF dated THEN 1 ELSE 0)
          /\ \A i \in 1..Len(plain) :
               StartsWith(query_parts[i], "AREA[" \o AreaOf[plain[i]] \o "]")
          /\ dated => StartsWith(query_parts[Len(query_parts)], "AREA[StartDate]")
          /\ IF query_parts = <<>> THEN "query.term" \notin DOMAIN params
             ELSE /\ "query.term" \in DOMAIN params
                  /\ Split(params["query.term"], " AND ") = query_parts

\* both date bounds, two other fields and an empty condition given: three
\* clauses for five non-null fields
C7_Witness ==
    /\ Done("search_trials")
    /\ args.condition = ""
    /\ IsPresent("phase")
    /\ IsPresent("sponsor")
    /\ ~IsPresent("status") /\ ~IsPresent("location")
    /\ ~IsPresent("intervention") /\ ~IsPresent("study_type")
    /\ IsPresent("start_date_from")
    /\ IsPresent("start_date_to")
    /\ Len(query_parts) = 3
    /\ requests[1].params["query.term"]
         = "AREA[Phase]PHASE3 AND AREA[LeadSponsorName]Pfizer AND "
           \o "AREA[StartDate]RANGE[2020-01-01,2021-12-31]"

ClausesOf(prefix) == SelectSeq(query_parts, LAMBDA c : StartsWith(c, prefix))

\* C8: in search_trials the start-date clause is AREA[StartDate]RANGE[from,to]
\* with both bounds given, RANGE[from,MAX] with only start_date_from,
\* RANGE[MIN,to] with only start_date_to, and missing with neither; every other
\* field f given with value v yields exactly the clause AREA[F]v, F being
\* Condition, Phase, OverallStatus, LocationCountry, LeadSponsorName,
\* InterventionName, StudyType for condition, phase, status, location, sponsor,
\* intervention, study_type.
C8_ClauseForms ==
    op = "search_trials" =>
      LET from == args.start_date_from
          to == args.start_date_to
          hasFrom == IsPresent("start_date_from")
          hasTo == IsPresent("start_date_to")
      IN  /\ ClausesOf("AREA[StartDate]") =
               IF hasFrom /\ hasTo
               THEN <<"AREA[StartDate]RANGE[" \o from \o "," \o to \o "]">>
               ELSE IF hasFrom THEN <<"AREA[StartDate]RANGE[" \o from \o ",MAX]">>
               ELSE IF hasTo THEN <<"AREA[StartDate]RANGE[MIN," \o to \o "]">>
               ELSE <<>>
          /\ \A f \in Range(PlainFields) :
               ClausesOf("AREA[" \o AreaOf[f] \o "]") =
                 IF IsPresent(f) THEN <<"AREA[" \o AreaOf[f] \o "]" \o args[f]>>
                 ELSE <<>>
          /\ pc = "done" /\ query_parts # <<>>
               => requests[1].params["query.term"] = Join(query_parts, " AND ")

\* only the upper date bound given, with a study type
C8_Witness ==
    /\ Done("search_trials")
    /\ ~IsPresent("start_date_from")
    /\ query_parts = <<"AREA[StudyType]INTERVENTIONAL",
                       "AREA[StartDate]RANGE[MIN,2021-12-31]">>

\* the call was handed exactly one record, with this criteria text
AnalyzedSingle(text) ==
    /\ Done("analyze_criteria")
    /\ args.trials.type = "list"
    /\ Len(args.trials.val) = 1
    /\ args.trials.val[1] = TrialWith(text)

\* C9 as stated: analyze_criteria on the single record whose criteria text is
\* "Inclusion Criteria: age 18+" returns inclusion ["age 18+"], exclusion [].
C9_InclusionOnlyExample ==
    AnalyzedSingle("Inclusion Criteria: age 18+")
      => outcome = Return("dict", [inclusion |-> <<"age 18+">>, exclusion |-> <<>>])

\* C9 as amended: on that record analyze_criteria returns inclusion
\* [": age 18+"] (the text after the marker, colon included, trimmed of white
\* space only) and exclusion [].
C9_InclusionOnlyKeepsColon ==
    AnalyzedSingle("Inclusion Criteria: age 18+")
      => outcome = Return("dict", [inclusion |-> <<": age 18+">>, exclusion |-> <<>>])

\* the one-record call returned one inclusion fragment and no exclusion
C9_Witness ==
    /\ AnalyzedSingle("Inclusion Criteria: age 18+")
    /\ Returned
    /\ Len(outcome.value.inclusion) = 1
    /\ outcome.value.exclusion = <<>>

\* C10: the aggregation operations hand an error value on unchanged:
\* analyze_criteria given a dict with the key "error" returns that dict, and
\* calculate_statistics returns the {"error": ...} value of its search_trials
\* call as it is, with no statistics field.
C10_ErrorsPassThrough ==
    /\ (Done("analyze_criteria") /\ args.trials.type = "dict"
        /\ "error" \in DOMAIN args.trials.val)
         => outcome = Return("dict", args.trials.val)
    /\ (Done("calculate_statistics") /\ IsFailure(LastResponse))
         => /\ outcome = SearchResult(LastResponse)
            /\ Returned
            /\ outcome.pytype = "dict"
            /\ DOMAIN outcome.value = {"error"}
            /\ outcome.value["error"] = FetchChecked(LastResponse).exc
                 \/ outcome.value["error"] = AttributeErrorMsg(LastResponse.data)

\* calculate_statistics whose request met an HTTP 500
C10_Witness ==
    /\ Done("calculate_statistics")
    /\ LastResponse.fail = "none"
    /\ LastResponse.status = 500
    /\ IsErrorReturn(outcome)

\* calculate_statistics returned a Statistics Bundle
IsBundle == Done("calculate_statistics") /\ Returned /\ ~IsErrorReturn(outcome)

\* the records the fold of calculate_statistics went over
FoldedTrials == SearchResult(LastResponse).value

\* a record whose processing raises inside the fold
RaisesInFold(t) == PhasesRaise(t) \/ EnrollmentRaises(t)

\* both dates present, both readable, completion strictly after start
Resolvable(t) ==
    /\ t.dates.start # ""
    /\ t.dates.completion # ""
    /\ parse_date(t.dates.start).valid
    /\ parse_date(t.dates.completion).valid
    /\ parse_date(t.dates.completion).ordinal > parse_date(t.dates.start).ordinal

DaysOf(t) == parse_date(t.dates.completion).ordinal - parse_date(t.dates.start).ordinal

RECURSIVE SumDays(_)
SumDays(ts) == IF ts = <<>> THEN 0 ELSE DaysOf(Head(ts)) + SumDays(Tail(ts))

\* C11: in calculate_statistics only records whose start and completion dates
\* are both present, both parse, and are in strict order add to duration.count
\* and duration.total_days (every such record does when no record raises); over
\* the records dated 2020-01-01/2020-12-31 and 2021-06-01/2021-06-01 the count
\* is 1 and average_days is the first record's duration.
C11_DurationOnlyStrictlyOrdered ==
    IsBundle =>
      LET able == SelectSeq(FoldedTrials, Resolvable)
          duration == outcome.value.duration
      IN  /\ duration.count <= Len(able)
          /\ duration.total_days <= SumDays(able)
          /\ (\A i \in 1..Len(FoldedTrials) : ~RaisesInFold(FoldedTrials[i]))
               => duration.count = Len(able) /\ duration.total_days = SumDays(able)
          /\ LastResponse = OkList(<<StudyA, StudyB>>)
               => /\ duration.count = 1
                  /\ duration.total_days = DaysOf(ParseCompact(StudyA))
                  /\ duration.average_days = Float(DaysOf(ParseCompact(StudyA)), 1)

\* the two records of the example: one year counted, the equal dates left out
C11_Witness ==
    /\ IsBundle
    /\ LastResponse = OkList(<<StudyA, StudyB>>)
    /\ outcome.value.duration.count = 1
    /\ outcome.value.duration.average_days = Float(365, 1)
    /\ ~Resolvable(ParseCompact(StudyB))

\* C12 as stated: the bundle carries a duration entry only when at least one
\* record yields a start and completion pair that resolves to a duration.
C12_DurationOnlyWhenResolvable ==
    IsBundle =>
      ("duration" \in DOMAIN outcome.value
         => \E i \in 1..Len(FoldedTrials) : Resolvable(FoldedTrials[i]))

\* C12 as amended: every bundle carries a duration entry with total_days and
\* count; average_days, average_months, average_years, min_days and max_days
\* are in it only when count > 0, that is only when some record yields a
\* resolvable pair; with no such record (the empty result included) the entry
\* is {total_days: 0, count: 0}.
C12_DurationAlwaysPresent ==
    IsBundle =>
      /\ "duration" \in DOMAIN outcome.value
      /\ LET duration == outcome.value.duration
             some == \E i \in 1..Len(FoldedTrials) : Resolvable(FoldedTrials[i])
         IN  /\ duration.count > 0 => some
             /\ ~some => duration = [total_days |-> 0, count |-> 0]
             /\ DOMAIN duration =
                  IF duration.count > 0
                  THEN {"total_days", "count", "average_days", "average_months",
                        "average_years", "min_days", "max_days"}
                  ELSE {"total_days", "count"}

\* the empty result set: a bundle with a duration entry of zeros
C12_Witness ==
    /\ IsBundle
    /\ LastResponse = OkList(<<>>)
    /\ outcome.value.total_trials = 0
    /\ outcome.value.duration = [total_days |-> 0, count |-> 0]

\* every location of every trial of the answer as a site, trial by trial
RECURSIVE AllSites(_)
AllSites(trials) ==
    IF trials = <<>> THEN <<>>
    ELSE LET protocol == PyGet(Head(trials), "protocolSection", EmptyDict)
             nct_id == PyGet(PyGet(protocol, "identificationModule", EmptyDict), "nctId", "")
             locations == PyGet(PyGet(protocol, "contactsLocationsModule", EmptyDict),
                                "locations", <<>>)
         IN  [i \in 1..Len(locations) |-> Site(nct_id, locations[i])]
             \o AllSites(Tail(trials))

\* C13: extract_sites returns at most 50 sites, exactly 50 when the trials of
\* the answer hold more than 50 locations: the first 50 locations in trial
\* order then location order, the trial that reaches the cap cut short and
\* the trials after it left out.
C13_FirstFiftySites ==
    (Done("extract_sites") /\ IsList(outcome)) =>
      LET all == AllSites(AnsweredStudies)
      IN  /\ Len(outcome.value) <= 50
          /\ Len(all) > 50 => Len(outcome.value) = 50
          /\ outcome.value = SubSeq(all, 1, Min(Len(all), 50))

\* 30 + 30 + 1 locations: the second trial is cut after its 20th location
\* and the third gives nothing
C13_Witness ==
    /\ Done("extract_sites")
    /\ AnsweredStudies = <<StudyA, StudyA, StudyB>>
    /\ Len(AllSites(AnsweredStudies)) = 61
    /\ Len(outcome.value) = 50
    /\ outcome.value[50].facility = "Hospital 20"
    /\ \A i \in 1..50 : outcome.value[i].nctId = "NCT00000001"

\* what the registry's record holds, before normalization
RawModule(raw, name) == PyGet(PyGet(raw, "protocolSection", EmptyDict), name, EmptyDict)
RawCriteria(raw) == PyGet(RawModule(raw, "eligibilityModule"), "eligibilityCriteria", "")
RawInterventions(raw) == PyGet(RawModule(raw, "armsInterventionsModule"), "interventions", <<>>)
RawLocations(raw) == PyGet(RawModule(raw, "contactsLocationsModule"), "locations", <<>>)

FullDetailFields ==
    {"officialTitle", "organization", "investigator", "investigatorAffiliation",
     "briefSummary", "detailedDescription", "design", "primaryOutcomes",
     "secondaryOutcomes"}

\* a record of search_trials is the compact variant of the registry's record
IsCompactOf(r, raw) ==
    /\ Len(r.eligibility.criteria) <= 800
    /\ r.eligibility.criteria = SubSeq(RawCriteria(raw), 1, Min(Len(RawCriteria(raw)), 800))
    /\ Len(r.interventions) = Len(RawInterventions(raw))
    /\ \A j \in 1..Len(r.interventions) :
         LET description == PyGet(RawInterventions(raw)[j], "description", "")
         IN  /\ Len(r.interventions[j].description) <= 200
             /\ r.interventions[j].description
                  = SubSeq(description, 1, Min(Len(description), 200))
    /\ DOMAIN r \cap FullDetailFields = {}

\* the free text of show_trials' record is the registry's, uncut, and the
\* full-detail fields are there
IsFullTextOf(r, raw) ==
    /\ r.eligibility.criteria = RawCriteria(raw)
    /\ Len(r.interventions) = Len(RawInterventions(raw))
    /\ \A j \in 1..Len(r.interventions) :
         r.interventions[j].description = PyGet(RawInterventions(raw)[j], "description", "")
    /\ r.briefSummary = PyGet(RawModule(raw, "descriptionModule"), "briefSummary", "")
    /\ r.detailedDescription
         = PyGet(RawModule(raw, "descriptionModule"), "detailedDescription", "")
    /\ FullDetailFields \subseteq DOMAIN r

ShownRecord == Done("show_trials") /\ Returned

\* C14 as stated: the records of search_trials are compact (criteria of at
\* most 800 characters, intervention descriptions of at most 200, no
\* full-detail field); show_trials for the same registry record returns the
\* full variant: criteria, descriptions and every other field uncut, the
\* full-detail fields present.
C14_CompactAndFullUncut ==
    /\ (Done("search_trials") /\ IsList(outcome)) =>
         \A i \in 1..Len(outcome.value) :
           IsCompactOf(outcome.value[i], AnsweredStudies[i])
    /\ ShownRecord =>
         /\ IsFullTextOf(outcome.value, LastResponse.data.val)
         /\ Len(outcome.value.locations) = Len(RawLocations(LastResponse.data.val))

\* C14 as amended: as stated, except that the locations are cut to the first
\* 10 in the full variant as in the compact one; for one registry record the
\* two variants agree on every field they share but the criteria and the
\* intervention descriptions, of which the compact one holds the first 800
\* and 200 characters.
C14_CompactAndFullButLocations ==
    /\ (Done("search_trials") /\ IsList(outcome)) =>
         \A i \in 1..Len(outcome.value) :
           LET r == outcome.value[i]
               raw == AnsweredStudies[i]
               full == ShowResult(HttpResp(200, TRUE, JDict(raw))).value
           IN  /\ IsCompactOf(r, raw)
               /\ IsFullTextOf(full, raw)
               /\ DOMAIN full = DOMAIN r \cup FullDetailFields
               /\ \A k \in DOMAIN r \ {"eligibility", "interventions"} : r[k] = full[k]
               /\ Len(r.locations) = Min(Len(RawLocations(raw)), 10)
    /\ ShownRecord =>
         LET raw == LastResponse.data.val
         IN  /\ IsFullTextOf(outcome.value, raw)
             /\ Len(outcome.value.locations) = Min(Len(RawLocations(raw)), 10)
             /\ \A j \in 1..Len(outcome.value.locations) :
                  outcome.value.locations[j].facility
                    = PyGet(RawLocations(raw)[j], "facility", "")

\* show_trials on the record with 880 characters of criteria, a description
\* of 260 and 30 locations
C14_Witness ==
    /\ ShownRecord
    /\ LastResponse.data.val = StudyA
    /\ Len(outcome.value.eligibility.criteria) = 880
    /\ Len(outcome.value.interventions[1].description) = 260
    /\ Len(ParseCompact(StudyA).eligibility.criteria) = 800
    /\ Len(ParseCompact(StudyA).interventions[1].description) = 200
    /\ Len(outcome.value.locations) = 10

\* the registry's answer to a query that matches nothing: 200, an object
\* with no study in it and no further page
ZeroAnswer(resp) ==
    /\ resp.fail = "none"
    /\ resp.status = 200
    /\ resp.parses
    /\ resp.data.type = "dict"
    /\ PyGet(resp.data.val, "studies", <<>>) = <<>>
    /\ ~Truthy(PyGet(resp.data.val, "nextPageToken", None))

\* C15: a query that matches no record is no error: count_trials returns
\* {count: 0, is_exact: True}, search_trials and extract_sites return [], and
\* calculate_statistics returns a bundle with total_trials 0, empty tables and
\* zero enrollment and duration counts; none returns {"error": ...} or raises.
C15_NoDataIsNoError ==
    (pc = "done" /\ Len(responses) = 1 /\ ZeroAnswer(responses[1])) =>
      /\ op = "count_trials"
           => outcome = Return("dict", [count |-> 0, is_exact |-> TRUE])
      /\ op \in {"search_trials", "extract_sites"} => outcome = Return("list", <<>>)
      /\ op = "calculate_statistics"
           => /\ Returned
              /\ outcome.pytype = "dict"
              /\ "error" \notin DOMAIN outcome.value
              /\ outcome.value.total_trials = 0
              /\ outcome.value.trial_nct_ids = <<>>
              /\ \A k \in {"phases", "statuses", "studyTypes", "sponsors"} :
                   DOMAIN outcome.value[k] = {}
              /\ outcome.value.enrollment = [total |-> 0, count |-> 0]
              /\ outcome.value.duration.count = 0
              /\ outcome.value.duration.total_days = 0

\* a filtered count that matched nothing
C15_Witness ==
    /\ Done("count_trials")
    /\ args.condition = "diabetes"
    /\ Len(responses) = 1
    /\ ZeroAnswer(responses[1])
    /\ "studies" \in DOMAIN responses[1].data.val
    /\ outcome.value.count = 0
    /\ outcome.value.is_exact

\* C16: in calculate_statistics a record whose processing fails is skipped:
\* the call still returns a bundle, the other records count as they do in a
\* batch without the failing record, and the failing record adds to none of
\* the frequency tables and totals.
C16_FailingRecordSkipped ==
    (Done("calculate_statistics") /\ ~IsFailure(LastResponse)) =>
      /\ IsBundle
      /\ LET others == SelectSeq(FoldedTrials, LAMBDA t : ~RaisesInFold(t))
             without == Statistics(others)
         IN  \A k \in {"phases", "statuses", "studyTypes", "sponsors",
                       "enrollment", "duration"} :
               /\ DOMAIN outcome.value[k] = DOMAIN without[k]
               /\ \A x \in DOMAIN without[k] : outcome.value[k][x] = without[k][x]

\* the criteria text analyze_criteria reads from an item ("" when it has none)
CriteriaOf(item) ==
    IF item.type = "dict"
    THEN PyGet(PyGet(item.val, "eligibility", EmptyDict), "criteria", "")
    ELSE ""

\* the text after the first occurrence of the marker, and the text before it
After(s, marker) == SubSeq(s, Find(s, marker) + Len(marker), Len(s))
UpTo(s, marker) == IF Contains(s, marker) THEN SubSeq(s, 1, Find(s, marker) - 1) ELSE s

WithMarker(items, marker) == SelectSeq(items, LAMBDA it : Contains(CriteriaOf(it), marker))

AnalyzedList == Done("analyze_criteria") /\ args.trials.type = "list"

\* C17 as stated: the inclusion fragment of a record is the trimmed text after
\* the inclusion marker up to the exclusion marker, its exclusion fragment the
\* trimmed text after the exclusion marker; a record gives a fragment iff its
\* text holds the marker, in input order, wherever and however often the
\* markers occur.
C17_FragmentsAfterMarker ==
    AnalyzedList =>
      LET inc == WithMarker(args.trials.val, InclusionMarker)
          exc == WithMarker(args.trials.val, ExclusionMarker)
      IN  /\ Len(outcome.value.inclusion) = Len(inc)
          /\ Len(outcome.value.exclusion) = Len(exc)
          /\ \A i \in 1..Len(inc) :
               outcome.value.inclusion[i]
                 = Strip(UpTo(After(CriteriaOf(inc[i]), InclusionMarker), ExclusionMarker))
          /\ \A i \in 1..Len(exc) :
               outcome.value.exclusion[i]
                 = Strip(After(CriteriaOf(exc[i]), ExclusionMarker))

\* C17 as amended: the inclusion fragment is the trimmed text between the
\* first inclusion marker and the next occurrence of either marker (or the
\* end); the exclusion fragment is the trimmed text between the first
\* exclusion marker and the next exclusion marker (or the end). A record gives
\* an inclusion fragment iff its text holds the inclusion marker and an
\* exclusion fragment iff it holds the exclusion marker, in input order; items
\* without criteria text give nothing.
C17_FragmentsUpToNextMarker ==
    AnalyzedList =>
      LET inc == WithMarker(args.trials.val, InclusionMarker)
          exc == WithMarker(args.trials.val, ExclusionMarker)
      IN  /\ Len(outcome.value.inclusion) = Len(inc)
          /\ Len(outcome.value.exclusion) = Len(exc)
          /\ Len(inc) <= Len(args.trials.val)
          /\ Len(exc) <= Len(args.trials.val)
          /\ \A i \in 1..Len(inc) :
               outcome.value.inclusion[i]
                 = Strip(UpTo(UpTo(After(CriteriaOf(inc[i]), InclusionMarker),
                                   InclusionMarker),
                              ExclusionMarker))
          /\ \A i \in 1..Len(exc) :
               outcome.value.exclusion[i]
                 = Strip(UpTo(After(CriteriaOf(exc[i]), ExclusionMarker), ExclusionMarker))

\* a record with each marker twice, after a record with the exclusion marker
\* first
C17_Witness ==
    /\ AnalyzedList
    /\ Len(args.trials.val) = 2
    /\ args.trials.val[1] = TrialItems[3]
    /\ args.trials.val[2] = TrialItems[4]
    /\ outcome.value.inclusion = <<": everyone", "a">>
    /\ outcome.value.exclusion = <<": minors Inclusion Criteria: everyone", "c">>

BaseKeys ==
    {"nctId", "title", "acronym", "status", "phases", "studyType", "conditions",
     "interventions", "sponsor", "sponsorClass", "enrollment", "dates", "eligibility",
     "locations"}

\* what the fields fed by a module are when the module is missing
BaseDefaults ==
    [identificationModule |-> [nctId |-> "", title |-> "", acronym |-> ""],
     statusModule |->
       [status |-> "",
        dates |-> [start |-> "", startType |-> "", completion |-> "",
                   completionType |-> "", primaryCompletion |-> "", firstPosted |-> "",
                   lastUpdated |-> "", firstSubmit |-> ""]],
     sponsorCollaboratorsModule |-> [sponsor |-> "", sponsorClass |-> ""],
     descriptionModule |-> EmptyDict,
     conditionsModule |-> [conditions |-> <<>>],
     designModule |-> [studyType |-> "", phases |-> <<>>,
                       enrollment |-> [count |-> 0, type |-> ""]],
     armsInterventionsModule |-> [interventions |-> <<>>],
     eligibilityModule |->
       [eligibility |-> [criteria |-> "", sex |-> "", minAge |-> "", maxAge |-> "",
                         stdAges |-> <<>>, healthyVolunteers |-> FALSE]],
     contactsLocationsModule |-> [locations |-> <<>>],
     outcomesModule |-> EmptyDict]

FullDefaults ==
    [identificationModule |-> [officialTitle |-> "", organization |-> ""],
     statusModule |-> EmptyDict,
     sponsorCollaboratorsModule |-> [investigator |-> "", investigatorAffiliation |-> ""],
     descriptionModule |-> [briefSummary |-> "", detailedDescription |-> ""],
     conditionsModule |-> EmptyDict,
     designModule |-> [design |-> [allocation |-> "", interventionModel |-> "",
                                   primaryPurpose |-> ""]],
     armsInterventionsModule |-> EmptyDict,
     eligibilityModule |-> EmptyDict,
     contactsLocationsModule |-> EmptyDict,
     outcomesModule |-> [primaryOutcomes |-> <<>>, secondaryOutcomes |-> <<>>]]

\* string fields read straight from a module: result key, module, raw key
DirectFields ==
    {<<"nctId", "identificationModule", "nctId">>,
     <<"title", "identificationModule", "briefTitle">>,
     <<"acronym", "identificationModule", "acronym">>,
     <<"status", "statusModule", "overallStatus">>,
     <<"studyType", "designModule", "studyType">>}

\* C18: _parse_study does not raise on a record in which any subset of the
\* nested objects or fields is missing, whatever full_details is: it returns
\* a record with all its keys, in which what is missing is the empty string,
\* the empty list, count 0 or healthyVolunteers false, and what is there is
\* the registry's; the result is a function of the record and the flag.
C18_MissingFieldsDefault ==
    (Done("_parse_study") /\ ~NullObject(args.study)) =>
      /\ Returned
      /\ outcome = ParseStudyOutcome(args.study, args.full_details)
      /\ LET r == outcome.value
             raw == args.study
             protocol == PyGet(raw, "protocolSection", EmptyDict)
             missing == DOMAIN BaseDefaults \ DOMAIN protocol
             Nested(mod, key, field, default) ==
                 PyGet(PyGet(RawModule(raw, mod), key, EmptyDict), field, default)
         IN  /\ DOMAIN r = BaseKeys \cup (IF args.full_details THEN FullDetailFields ELSE {})
             /\ \A mod \in missing :
                  /\ \A k \in DOMAIN BaseDefaults[mod] : r[k] = BaseDefaults[mod][k]
                  /\ args.full_details
                       => \A k \in DOMAIN FullDefaults[mod] : r[k] = FullDefaults[mod][k]
             /\ \A f \in DirectFields : r[f[1]] = PyGet(RawModule(raw, f[2]), f[3], "")
             /\ r.sponsor = Nested("sponsorCollaboratorsModule", "leadSponsor", "name", "")
             /\ r.sponsorClass = Nested("sponsorCollaboratorsModule", "leadSponsor", "class", "")
             /\ r.enrollment.count = Nested("designModule", "enrollmentInfo", "count", 0)
             /\ r.enrollment.type = Nested("designModule", "enrollmentInfo", "type", "")
             /\ r.dates.start = Nested("statusModule", "startDateStruct", "date", "")
             /\ r.dates.completionType = Nested("statusModule", "completionDateStruct", "type", "")
             /\ r.eligibility.healthyVolunteers
                  = PyGet(RawModule(raw, "eligibilityModule"), "healthyVolunteers", FALSE)
             /\ Len(r.locations) = Min(Len(RawLocations(raw)), 10)
             /\ \A j \in 1..Len(r.locations) :
                  \A k \in {"facility", "city", "state", "country", "status"} :
                    r.locations[j][k] = PyGet(RawLocations(raw)[j], k, "")
             /\ DOMAIN raw = {} =>
                  /\ \A mod \in DOMAIN BaseDefaults :
                       \A k \in DOMAIN BaseDefaults[mod] : r[k] = BaseDefaults[mod][k]
                  /\ args.full_details
                       => \A mod \in DOMAIN FullDefaults :
                            \A k \in DOMAIN FullDefaults[mod] : r[k] = FullDefaults[mod][k]

\* the empty object, normalized in full detail
C18_Witness ==
    /\ Done("_parse_study")
    /\ DOMAIN args.study = {}
    /\ args.full_details
    /\ Returned
    /\ outcome.value.nctId = ""
    /\ outcome.value.phases = <<>>
    /\ outcome.value.enrollment.count = 0
    /\ ~outcome.value.eligibility.healthyVolunteers
    /\ outcome.value.primaryOutcomes = <<>>

OnePageOps == {"search_trials", "show_trials", "extract_sites", "calculate_statistics"}

\* the requests of the running call are what a client that never retries sends
NoRetryState ==
    /\ Len(requests) = Len(responses)
    /\ op \in OnePageOps =>
         /\ Len(requests) <= 1
         /\ pc = "done" => Len(requests) = 1
    /\ op \notin OnePageOps \cup {"count_trials"} => requests = <<>>
    /\ op = "count_trials" =>
         /\ Len(requests) <= 3
         /\ requests # <<>> => "pageToken" \notin DOMAIN requests[1].params
         /\ \A k \in 2..Len(requests) :
              /\ CarriesToken(responses[k - 1])
              /\ requests[k].params["pageToken"] = responses[k - 1].data.val["nextPageToken"]
              /\ requests[k].url = requests[1].url
              /\ \A x \in DOMAIN requests[1].params :
                   requests[k].params[x] = requests[1].params[x]
         /\ \A i \in 1..Len(responses) :
              IsFailure(responses[i]) => i = Len(responses) /\ pc = "done"

\* a step sends at most one request, and none once a request of the call has
\* failed
NoRetryStep ==
    /\ \/ requests' = requests
       \/ requests' = <<>>
       \/ \E r \in {requests'[Len(requests')]} : requests' = Append(requests, r)
    /\ (requests # <<>> /\ IsFailure(LastResponse))
         => requests' \in {requests, <<>>}

\* C19: the core never retries: search_trials, show_trials, extract_sites and
\* calculate_statistics send exactly one request per call; count_trials sends
\* its k-th request (k = 2, 3) only after the (k-1)-th succeeded, with the
\* nextPageToken of that answer as pageToken; no request follows a failed one.
C19_NoRetry == [](NoRetryState) /\ [][NoRetryStep]_vars

\* three dependent requests of one count, the second token differing from
\* the first
C19_Witness ==
    /\ Done("count_trials")
    /\ Len(requests) = 3
    /\ requests[2].params["pageToken"] = "tokA"
    /\ requests[3].params["pageToken"] = "tokB"

\* the sum of the counts of a frequency table
RECURSIVE SumValues(_)
SumValues(d) ==
    IF DOMAIN d = {} THEN 0
    ELSE LET k == CHOOSE k \in DOMAIN d : TRUE
         IN  d[k] + SumValues([x \in DOMAIN d \ {k} |-> d[x]])

DurationBounds(duration) ==
    duration.count > 0 =>
      /\ 1 <= duration.min_days
      /\ duration.min_days <= duration.max_days
      /\ duration.count * duration.min_days <= duration.total_days
      /\ duration.total_days <= duration.count * duration.max_days

\* C20 as stated: in every bundle the counts of statuses, of studyTypes and
\* of sponsors each sum to total_trials, total_trials <= 20, enrollment.count
\* and duration.count are at most total_trials, and with duration.count > 0,
\* 1 <= min_days <= max_days and count*min_days <= total_days <= count*max_days.
C20_BundleInvariants ==
    IsBundle =>
      LET b == outcome.value
      IN  /\ SumValues(b.statuses) = b.total_trials
          /\ SumValues(b.studyTypes) = b.total_trials
          /\ SumValues(b.sponsors) = b.total_trials
          /\ b.total_trials <= 20
          /\ b.enrollment.count <= b.total_trials
          /\ b.duration.count <= b.total_trials
          /\ DurationBounds(b.duration)

\* C20 as amended: total_trials is the number of records in the registry's
\* answer, so at most 20 provided the answer holds at most pageSize records;
\* the counts of statuses, of studyTypes and of sponsors each sum to the
\* number of records whose processing got as far as the table: at most
\* total_trials, and exactly total_trials when no record's processing fails;
\* the rest as stated.
C20_BundleInvariantsGivenSoundRecords ==
    IsBundle =>
      LET b == outcome.value
          counted == Len(SelectSeq(FoldedTrials, LAMBDA t : ~PhasesRaise(t)))
      IN  /\ b.total_trials = Len(AnsweredStudies)
          /\ Len(AnsweredStudies) <= requests[1].params["pageSize"] => b.total_trials <= 20
          /\ \A k \in {"statuses", "studyTypes", "sponsors"} :
               /\ SumValues(b[k]) = counted
               /\ SumValues(b[k]) <= b.total_trials
               /\ (\A i \in 1..Len(FoldedTrials) : ~RaisesInFold(FoldedTrials[i]))
                    => SumValues(b[k]) = b.total_trials
          /\ b.enrollment.count <= b.total_trials
          /\ b.duration.count <= b.total_trials
          /\ DurationBounds(b.duration)

\* two records with durations of 365 and 366 days
C20_Witness ==
    /\ IsBundle
    /\ outcome.value.total_trials = 2
    /\ outcome.value.duration.count = 2
    /\ outcome.value.duration.min_days = 365
    /\ outcome.value.duration.max_days = 366
    /\ outcome.value.duration.total_days = 731
    /\ SumValues(outcome.value.sponsors) = 2

\* no run() is under way: the history as a sequence of calls left it
BetweenCalls == agent_pc = "idle"

\* the message at position i asks for tools
AsksForTools(i) == messages[i].role = "assistant" /\ messages[i].tool_calls # <<>>

\* the messages right after position i answer its tool calls one by one
Answered(i) ==
    \A k \in 1..Len(messages[i].tool_calls) :
      /\ i + k <= Len(messages)
      /\ messages[i + k].role = "tool"
      /\ messages[i + k].tool_call_id = messages[i].tool_calls[k].id

HistoryWellFormed ==
    /\ Len(messages) >= 1
    /\ messages[1] = SystemMessage
    /\ \A i \in 1..Len(messages) : AsksForTools(i) => Answered(i)

ClearResets == ClearMemory => messages' = <<SystemMessage>>

\* C21: after any sequence of run and clear_memory calls, runs ended by an
\* exception of a tool or of the oracle included, the history starts with the
\* system prompt and every assistant message carrying tool calls is directly
\* followed by one tool message per call, with the call's id and in the
\* calls' order; clear_memory leaves exactly the system prompt.
C21_HistoryWellFormed ==
    [](BetweenCalls => HistoryWellFormed) /\ [][ClearResets]_vars

=============================================================================
